---- MODULE Spec2Model ----
(***************************************************************************)
(* SP-1200 disk builder and sample-file codec of mpc3000-snd-player        *)
(* (app/lib/sp1200: SP1200DiskBuilderImpl, createSP1200SampleFile,         *)
(* parseSP1200File, parseSP1200Disk).                                      *)
(*                                                                         *)
(* Representation of values:                                               *)
(*  - a byte array (ArrayBuffer / Uint8Array) is a record                  *)
(*    [length, nz]: its length and the map from the offsets of its         *)
(*    non-zero bytes to their values; every other offset below length      *)
(*    reads 0.  Every byte array has exactly one such representation, so   *)
(*    equality of records is byte-for-byte equality.                       *)
(*  - a string is the sequence of its UTF-16 code units.                   *)
(*  - an optional value (undefined in the source) is None or Some(v).      *)
(*  - a call's outcome carries threw: None, or Some(error message), or     *)
(*    Some("RangeError") for the runtime's out-of-bounds error.            *)
(***************************************************************************)
EXTENDS Integers, Sequences, FiniteSets, TLC

VARIABLES padAssignments, ret, sample, fileData, parsed,
          wavBuffer, wavTuning, wavHeader, wavValidation, wavOutput,
          sndInput, sndFile, sndDecoded, requests, scanState, playerState,
          uiState

vars == <<padAssignments, ret, sample, fileData, parsed,
          wavBuffer, wavTuning, wavHeader, wavValidation, wavOutput,
          sndInput, sndFile, sndDecoded, requests, scanState, playerState,
          uiState>>

builderVars == <<padAssignments, ret>>

codecVars == <<sample, fileData, parsed>>

wavVars == <<wavBuffer, wavTuning, wavHeader, wavValidation, wavOutput>>

sndVars == <<sndInput, sndFile, sndDecoded>>

\* the variables of the SND codec, the upload route, the stepwise chunk
\* scan, the disk player and the SND player component
restVars == <<sndVars, requests, scanState, playerState, uiState>>

None == <<>>

Some(v) == <<v>>

\* nothing of the SND codec, the route, the scan or the players is in use
RestIdle ==
  /\ sndInput = None
  /\ sndFile = None
  /\ sndDecoded = None
  /\ requests = <<>>
  /\ scanState = None
  /\ playerState = None
  /\ uiState = None

(***************************************************************************)
(* Constants of the format.                                                *)
(***************************************************************************)
SP1200_MAGIC == 4608

SP1200_SAMPLE_RATE == 26040

SP1200_DISK_SIZE == 824576

SP1200_PAD_TABLE_OFFSET == 2048

SP1200_PAD_ENTRY_SIZE == 32

SP1200_SAMPLE_DATA_OFFSET == 4096

SP1200_SAMPLE_ALIGN == 256

SP1200_END_MARKER == 32768

SP1200_MAX_PADS == 32

SP1200_VOLUME_MAX == 255

(***************************************************************************)
(* Bound of the model: the number of assignments the builder may hold.     *)
(***************************************************************************)
MaxHeld == 3

(***************************************************************************)
(* Byte arrays.                                                            *)
(***************************************************************************)
NoBytes == [i \in {} |-> 0]

\* new Uint8Array(n) / new ArrayBuffer(n): n zero bytes
ZeroBytes(n) == [length |-> n, nz |-> NoBytes]

\* the byte array holding the bytes of the sequence s
BytesOf(s) ==
  [length |-> Len(s),
   nz |-> [i \in {j \in 0..(Len(s) - 1) : s[j + 1] # 0} |-> s[i + 1]]]

\* view.getUint8(i) of an offset inside the array
GetUint8(b, i) == IF i \in DOMAIN b.nz THEN b.nz[i] ELSE 0

GetUint16LE(b, i) == GetUint8(b, i) + 256 * GetUint8(b, i + 1)

GetUint32LE(b, i) ==
  GetUint8(b, i) + 256 * GetUint8(b, i + 1) + 65536 * GetUint8(b, i + 2)
    + 16777216 * GetUint8(b, i + 3)

\* the bytes of b with the len bytes at off replaced by those of src
\* (src: a map from offsets relative to off to non-zero values)
Overwrite(b, off, len, srcnz) ==
  LET kept == {i \in DOMAIN b.nz : i < off \/ i >= off + len}
      put == {off + j : j \in DOMAIN srcnz}
  IN [length |-> b.length,
      nz |-> [i \in kept \cup put |->
                IF i \in put THEN srcnz[i - off] ELSE b.nz[i]]]

\* the len bytes of b from off on, as a byte array of their own
Slice(b, off, len) ==
  [length |-> len,
   nz |-> [j \in {i - off : i \in {k \in DOMAIN b.nz : k >= off /\ k < off + len}}
             |-> b.nz[j + off]]]

(***************************************************************************)
(* A buffer being written: st = [bytes, cur, threw].  Every DataView and   *)
(* typed-array write checks its range and throws RangeError when it does   *)
(* not fit; once something was thrown nothing more is executed.            *)
(***************************************************************************)
\* bytes.set(src, off) where src is a byte array
TypedArraySet(st, src, off) ==
  IF st.threw # None THEN st
  ELSE IF off + src.length > st.bytes.length
       THEN [st EXCEPT !.threw = Some("RangeError")]
       ELSE [st EXCEPT !.bytes = Overwrite(@, off, src.length, src.nz)]

\* writes the byte sequence s at off
ViewSet(st, off, s) == TypedArraySet(st, BytesOf(s), off)

SetUint8(st, off, v) == ViewSet(st, off, <<v % 256>>)

SetUint16LE(st, off, v) == ViewSet(st, off, <<v % 256, (v \div 256) % 256>>)

SetUint32LE(st, off, v) ==
  ViewSet(st, off, <<v % 256, (v \div 256) % 256, (v \div 65536) % 256,
                     (v \div 16777216) % 256>>)

(***************************************************************************)
(* Strings.                                                                *)
(***************************************************************************)
Min(a, b) == IF a < b THEN a ELSE b

\* s.slice(0, n)
StrSlice(s, n) == SubSeq(s, 1, Min(n, Len(s)))

\* UTF-8 bytes of one code unit (no surrogates among the inputs)
Utf8OfUnit(c) ==
  IF c < 128 THEN <<c>>
  ELSE IF c < 2048 THEN <<192 + (c \div 64), 128 + (c % 64)>>
  ELSE <<224 + (c \div 4096), 128 + ((c \div 64) % 64), 128 + (c % 64)>>

RECURSIVE TextEncode(_)
\* new TextEncoder().encode(s)
TextEncode(s) ==
  IF s = <<>> THEN <<>> ELSE Utf8OfUnit(Head(s)) \o TextEncode(Tail(s))

\* the code units String.prototype.trim removes (below 256)
IsWhiteSpace(c) == c \in {9, 10, 11, 12, 13, 32, 160}

RECURSIVE TrimStart(_)
TrimStart(s) ==
  IF s # <<>> /\ IsWhiteSpace(Head(s)) THEN TrimStart(Tail(s)) ELSE s

RECURSIVE TrimEnd(_)
TrimEnd(s) ==
  IF s # <<>> /\ IsWhiteSpace(s[Len(s)])
  THEN TrimEnd(SubSeq(s, 1, Len(s) - 1)) ELSE s

\* s.trim()
Trim(s) == TrimEnd(TrimStart(s))

RECURSIVE ReadName_Eleven(_, _, _)
\* a name loop that stops one byte early
ReadName_Eleven(b, off, i) ==
  IF i >= 11 \/ GetUint8(b, off + i) = 0 THEN <<>>
  ELSE <<GetUint8(b, off + i)>> \o ReadName_Eleven(b, off, i + 1)

RECURSIVE ReadName(_, _, _)
\* the loop that reads up to 12 bytes of a name, stopping at a zero byte
ReadName(b, off, i) ==
  IF i >= 12 \/ GetUint8(b, off + i) = 0 THEN <<>>
  ELSE <<GetUint8(b, off + i)>> \o ReadName(b, off, i + 1)

(***************************************************************************)
(* SP1200DiskBuilderImpl.  padAssignments is a Map<string, assignment>: a  *)
(* sequence of entries [key, value] in insertion order, keys distinct.     *)
(***************************************************************************)
isValidBank(bank) == bank = "A" \/ bank = "B" \/ bank = "C" \/ bank = "D"

\* the lower limit off by one
isValidPad_FromZero(pad) == pad >= 0 /\ pad <= 8

isValidPad(pad) == pad >= 1 /\ pad <= 8

\* `${bank}${padNumber}`
getPadKey(bank, padNumber) == bank \o ToString(padNumber)

bankOffset == [A |-> 0, B |-> 8, C |-> 16, D |-> 24]

\* an index that forgets the pad numbers start at 1
getPadIndex_OneBased(bank, pad) == bankOffset[bank] + pad

getPadIndex(bank, pad) == bankOffset[bank] + (pad - 1)

MapHas(m, key) == \E i \in 1..Len(m) : m[i].key = key

\* a set that never replaces
MapSet_Append(m, key, value) == Append(m, [key |-> key, value |-> value])

\* Map.prototype.set: an existing key keeps its place, a new key is appended
MapSet(m, key, value) ==
  IF MapHas(m, key)
  THEN [i \in 1..Len(m) |->
          IF m[i].key = key THEN [key |-> key, value |-> value] ELSE m[i]]
  ELSE Append(m, [key |-> key, value |-> value])

\* a delete with the filter inverted
MapDelete_Inverted(m, key) == SelectSeq(m, LAMBDA e : e.key = key)

\* Map.prototype.delete
MapDelete(m, key) == SelectSeq(m, LAMBDA e : e.key # key)

\* Map.prototype.get
MapGet(m, key) ==
  IF MapHas(m, key)
  THEN Some((CHOOSE e \in {m[i] : i \in 1..Len(m)} : e.key = key).value)
  ELSE None

\* Array.from(this.padAssignments.values())
getPadAssignments(m) == [i \in 1..Len(m) |-> m[i].value]

getSample(m, bank, padNumber) == MapGet(m, getPadKey(bank, padNumber))

\* the outcome of addSample(assignment) on the map m: [threw, map]
addSample(m, assignment) ==
  IF ~isValidBank(assignment.bank)
  THEN [threw |-> Some("Invalid bank. Must be A, B, C, or D"), map |-> m]
  ELSE IF ~isValidPad(assignment.padNumber)
  THEN [threw |-> Some("Invalid pad number. Must be between 1 and 8"), map |-> m]
  ELSE [threw |-> None,
        map |-> MapSet(m, getPadKey(assignment.bank, assignment.padNumber),
                       [assignment EXCEPT !.name = StrSlice(@, 12)])]

removeSample(m, bank, padNumber) == MapDelete(m, getPadKey(bank, padNumber))

clear(m) == <<>>

(***************************************************************************)
(* createDiskImage.                                                        *)
(***************************************************************************)
\* a.localeCompare(b) of two bank letters
localeCompare(a, b) == bankOffset[a] - bankOffset[b]

\* the comparator handed to sort
compareAssignments(a, b) ==
  LET bankCompare == localeCompare(a.bank, b.bank)
  IN IF bankCompare # 0 THEN bankCompare ELSE a.padNumber - b.padNumber

RECURSIVE InsertSorted(_, _)
InsertSorted(x, s) ==
  IF s = <<>> THEN <<x>>
  ELSE IF compareAssignments(x, Head(s)) <= 0 THEN <<x>> \o s
  ELSE <<Head(s)>> \o InsertSorted(x, Tail(s))

\* the assignments left in insertion order
sortAssignments_Unsorted(s) == s

RECURSIVE sortAssignments(_)
\* Array.prototype.sort with the comparator (a stable sort)
sortAssignments(s) ==
  IF s = <<>> THEN <<>> ELSE InsertSorted(Head(s), sortAssignments(Tail(s)))

\* an alignment that rounds down
AlignUp_Down(x) == (x \div SP1200_SAMPLE_ALIGN) * SP1200_SAMPLE_ALIGN

\* (x + SP1200_SAMPLE_ALIGN - 1) & ~(SP1200_SAMPLE_ALIGN - 1)
AlignUp(x) ==
  ((x + SP1200_SAMPLE_ALIGN - 1) \div SP1200_SAMPLE_ALIGN) * SP1200_SAMPLE_ALIGN

\* v || d  for an optional number
OrElse(opt, d) == IF opt = None \/ opt[1] = 0 THEN d ELSE opt[1]

\* v ?? d
Coalesce(opt, d) == IF opt = None THEN d ELSE opt[1]

bankIndexOf == [A |-> 0, B |-> 1, C |-> 2, D |-> 3]

\* a buffer that ends where the sample data starts
AllocDisk_HeaderOnly == ZeroBytes(SP1200_SAMPLE_DATA_OFFSET)

\* new ArrayBuffer(SP1200_DISK_SIZE), zero-filled
AllocDisk == ZeroBytes(SP1200_DISK_SIZE)

\* step 5 of the pad entry: the metadata bytes
WriteMetadata(st, smp, padEntryOffset) ==
  IF smp.metadata # None
  THEN LET md == smp.metadata[1]
           s1 == SetUint8(st, padEntryOffset + 24, Coalesce(md.tuning, 0) + 12)
           s2 == SetUint8(s1, padEntryOffset + 25, OrElse(md.volume, SP1200_VOLUME_MAX))
           s3 == SetUint8(s2, padEntryOffset + 26,
                          IF md.loop # None /\ md.loop[1] THEN 1 ELSE 0)
           s4 == SetUint16LE(s3, padEntryOffset + 27, OrElse(md.loopStart, 0))
           s5 == SetUint16LE(s4, padEntryOffset + 29, OrElse(md.loopEnd, 0))
           s6 == SetUint16LE(s5, padEntryOffset + 31, OrElse(md.truncStart, 0))
       IN SetUint16LE(s6, padEntryOffset + 33, OrElse(md.truncEnd, 0))
  ELSE SetUint8(st, padEntryOffset + 25, SP1200_VOLUME_MAX)

\* steps 1 to 5: the pad table entry of one sample
WritePadEntry(st, smp) ==
  LET padIndex == getPadIndex(smp.bank, smp.padNumber)
      padEntryOffset == SP1200_PAD_TABLE_OFFSET + (padIndex * SP1200_PAD_ENTRY_SIZE)
      nameBytes == TextEncode(StrSlice(smp.name, 12))
      numWords == smp.data.length \div 2
      s1 == ViewSet(st, padEntryOffset, nameBytes)
      s2 == SetUint32LE(s1, padEntryOffset + 12, numWords)
      s3 == SetUint32LE(s2, padEntryOffset + 16, st.cur)
      s4 == SetUint8(s3, padEntryOffset + 20, bankIndexOf[smp.bank])
      s5 == SetUint8(s4, padEntryOffset + 21, smp.padNumber - 1)
  IN WriteMetadata(s5, smp, padEntryOffset)

\* the sample data, its end marker and the advance of the cursor
WriteSampleData(st, smp) ==
  LET aligned == IF st.cur % SP1200_SAMPLE_ALIGN # 0 THEN AlignUp(st.cur) ELSE st.cur
      s1 == TypedArraySet(st, smp.data, aligned)
      endMarkerOffset == aligned + smp.data.length
      s2 == SetUint16LE(s1, endMarkerOffset, SP1200_END_MARKER)
  IN IF s2.threw # None THEN s2 ELSE [s2 EXCEPT !.cur = AlignUp(endMarkerOffset)]

\* one iteration of the loop over the sorted assignments
LayoutSample(st, smp) ==
  IF st.threw # None THEN st ELSE WriteSampleData(WritePadEntry(st, smp), smp)

RECURSIVE LayoutLoop(_, _)
LayoutLoop(st, sorted) ==
  IF sorted = <<>> THEN st
  ELSE LayoutLoop(LayoutSample(st, Head(sorted)), Tail(sorted))

\* the outcome of createDiskImage() on the map m: [threw, image]
createDiskImage(m) ==
  LET s0 == [bytes |-> AllocDisk, cur |-> SP1200_SAMPLE_DATA_OFFSET, threw |-> None]
      s1 == SetUint16LE(s0, 0, SP1200_MAGIC)
      s2 == SetUint16LE(s1, 2, Len(m))
      s3 == SetUint16LE(s2, 4, 0)
      s4 == TypedArraySet(s3, ZeroBytes(SP1200_MAX_PADS * SP1200_PAD_ENTRY_SIZE),
                          SP1200_PAD_TABLE_OFFSET)
      s5 == LayoutLoop(s4, sortAssignments(getPadAssignments(m)))
  IN IF s5.threw # None THEN [threw |-> s5.threw, image |-> ZeroBytes(0)]
     ELSE IF s5.cur > SP1200_DISK_SIZE
     THEN [threw |-> Some("Disk image exceeds maximum size"), image |-> ZeroBytes(0)]
     ELSE [threw |-> None, image |-> s5.bytes]

(***************************************************************************)
(* parseSP1200Disk, createSP1200SampleFile, parseSP1200File.               *)
(***************************************************************************)
\* ['A', 'B', 'C', 'D'][bankIndex]; an index past the array gives undefined
bankOfIndex(bankIndex) ==
  IF bankIndex < 4 THEN <<"A", "B", "C", "D">>[bankIndex + 1] ELSE "undefined"

\* the sample read from the table entry at padEntryOffset: [threw, sample];
\* a read outside the buffer throws RangeError
readDiskEntry(b, padEntryOffset) ==
  LET numWords == GetUint32LE(b, padEntryOffset + 12)
      sampleOffset == GetUint32LE(b, padEntryOffset + 16)
      bankIndex == GetUint8(b, padEntryOffset + 20)
      padNumber == GetUint8(b, padEntryOffset + 21) + 1
      name == ReadName(b, padEntryOffset, 0)
  IN IF padEntryOffset + 22 > b.length
        \/ (numWords > 0 /\ sampleOffset + numWords * 2 > b.length)
     THEN [threw |-> Some("RangeError"), sample |-> None]
     ELSE [threw |-> None,
           sample |-> Some([name |-> Trim(name),
                            bank |-> bankOfIndex(bankIndex),
                            padNumber |-> padNumber,
                            data |-> Slice(b, sampleOffset, numWords * 2),
                            sampleRate |-> SP1200_SAMPLE_RATE,
                            bitsPerSample |-> 12,
                            length |-> numWords,
                            metadata |-> None])]

RECURSIVE readDiskEntries(_, _, _)
\* the loop for (i = 0; i < numSamples; i++) from i on
readDiskEntries(b, i, numSamples) ==
  IF i >= numSamples THEN [threw |-> None, samples |-> <<>>]
  ELSE LET e == readDiskEntry(b, SP1200_PAD_TABLE_OFFSET + (i * SP1200_PAD_ENTRY_SIZE))
       IN IF e.threw # None THEN [threw |-> e.threw, samples |-> <<>>]
          ELSE LET rest == readDiskEntries(b, i + 1, numSamples)
               IN [threw |-> rest.threw,
                   samples |-> IF rest.threw # None THEN <<>>
                               ELSE e.sample \o rest.samples]

\* parseSP1200Disk(diskData): [threw, samples, sequences]
parseSP1200Disk(diskData) ==
  IF diskData.length < 6
  THEN [threw |-> Some("RangeError"), samples |-> <<>>, sequences |-> <<>>]
  ELSE IF GetUint16LE(diskData, 0) # SP1200_MAGIC % 65536
  THEN [threw |-> Some("Invalid SP-1200 disk: wrong magic number"),
        samples |-> <<>>, sequences |-> <<>>]
  ELSE LET r == readDiskEntries(diskData, 0, GetUint16LE(diskData, 2))
       IN [threw |-> r.threw, samples |-> r.samples, sequences |-> <<>>]

\* createSP1200SampleFile(sample): [threw, buffer]
createSP1200SampleFile(smp) ==
  LET s0 == [bytes |-> ZeroBytes(SP1200_DISK_SIZE), cur |-> 0, threw |-> None]
      s1 == SetUint16LE(s0, 0, SP1200_MAGIC)
      s2 == SetUint16LE(s1, 2, 1)
      s3 == SetUint16LE(s2, 4, 0)
      padEntryOffset == SP1200_PAD_TABLE_OFFSET
      s4 == ViewSet(s3, padEntryOffset, TextEncode(StrSlice(smp.name, 12)))
      numWords == smp.data.length \div 2
      s5 == SetUint32LE(s4, padEntryOffset + 12, numWords)
      s6 == SetUint32LE(s5, padEntryOffset + 16, SP1200_SAMPLE_DATA_OFFSET)
      s7 == TypedArraySet(s6, smp.data, SP1200_SAMPLE_DATA_OFFSET)
  IN IF s7.threw # None THEN [threw |-> s7.threw, buffer |-> ZeroBytes(0)]
     ELSE [threw |-> None, buffer |-> s7.bytes]

\* parseSP1200File(fileData): [threw, sample]
parseSP1200File(b) ==
  IF b.length < 2 THEN [threw |-> Some("RangeError"), sample |-> None]
  ELSE IF GetUint16LE(b, 0) # SP1200_MAGIC % 65536
  THEN [threw |-> Some("Invalid SP-1200 file: wrong magic number"), sample |-> None]
  ELSE LET padEntryOffset == SP1200_PAD_TABLE_OFFSET
           name == ReadName(b, padEntryOffset, 0)
           numWords == GetUint32LE(b, padEntryOffset + 12)
           sampleOffset == GetUint32LE(b, padEntryOffset + 16)
       IN IF padEntryOffset + 20 > b.length
             \/ (numWords > 0 /\ sampleOffset + numWords * 2 > b.length)
          THEN [threw |-> Some("RangeError"), sample |-> None]
          ELSE [threw |-> None,
                sample |-> Some([name |-> Trim(name),
                                 bank |-> "A",
                                 padNumber |-> 1,
                                 data |-> Slice(b, sampleOffset, numWords * 2),
                                 sampleRate |-> SP1200_SAMPLE_RATE,
                                 bitsPerSample |-> 12,
                                 length |-> numWords,
                                 metadata |-> None])]

(***************************************************************************)
(* Inputs.                                                                 *)
(***************************************************************************)
\* "KICK", "ABCDEFGHIJKLM" (13 characters), "S", " hat ", "TOM", e acute
NameKick == <<75, 73, 67, 75>>

NameLong == <<65, 66, 67, 68, 69, 70, 71, 72, 73, 74, 75, 76, 77>>

NameS == <<83>>

NameHat == <<32, 104, 97, 116, 32>>

NameTom == <<84, 79, 77>>

NameEacute == <<233>>

\* sample payloads: one block, one word, three bytes, empty, half a disk
Data256 == [length |-> 256, nz |-> (0 :> 1) @@ (255 :> 2)]

DataWord == BytesOf(<<1, 8>>)

DataOdd == BytesOf(<<3, 4, 5>>)

DataEmpty == ZeroBytes(0)

DataBig == [length |-> 410240, nz |-> (0 :> 9) @@ (410239 :> 7)]

Metadata(tuning, volume, loop, loopStart, loopEnd, truncStart, truncEnd) ==
  Some([tuning |-> tuning, volume |-> volume, loop |-> loop,
        loopStart |-> loopStart, loopEnd |-> loopEnd,
        truncStart |-> truncStart, truncEnd |-> truncEnd])

\* the metadata the upload route passes
MetaRoute == Metadata(Some(0), Some(255), Some(FALSE), Some(0), Some(0), Some(0), Some(0))

MetaFull ==
  Metadata(Some(-12), Some(200), Some(TRUE), Some(1), Some(2), Some(4660), Some(16706))

MetaMute == Metadata(None, Some(0), None, None, None, None, None)

Assignment(bank, padNumber, name, data, metadata) ==
  [bank |-> bank, padNumber |-> padNumber, name |-> name, data |-> data,
   metadata |-> metadata]

ValidAssignmentInputs ==
  { Assignment("A", 1, NameKick, Data256, None),
    Assignment("A", 1, NameLong, DataWord, MetaFull),
    Assignment("A", 2, NameS, DataOdd, MetaRoute),
    Assignment("B", 3, NameHat, DataEmpty, MetaMute),
    Assignment("C", 5, NameEacute, DataBig, None),
    Assignment("D", 8, NameTom, DataBig, MetaFull) }

InvalidAssignmentInputs ==
  { Assignment("E", 1, NameKick, DataWord, None),
    Assignment("A", 0, NameKick, DataWord, None),
    Assignment("A", 9, NameKick, DataWord, None),
    Assignment("a", 12, NameKick, DataWord, None) }

AssignmentInputs == ValidAssignmentInputs \cup InvalidAssignmentInputs

\* the (bank, pad) arguments of removeSample and getSample
PadInputs == {<<a.bank, a.padNumber>> : a \in AssignmentInputs} \cup {<<"D", 7>>}

(***************************************************************************)
(* The builder as a state machine: one action per public method.  ret      *)
(* records the last call, its arguments and its outcome.                   *)
(***************************************************************************)
NoCall == [op |-> "none", threw |-> None]

NoSample == None

Init ==
  /\ padAssignments = <<>>
  /\ ret = NoCall
  /\ sample = NoSample
  /\ fileData = None
  /\ parsed = None
  /\ wavBuffer = ZeroBytes(0)
  /\ wavTuning = 0
  /\ wavHeader = None
  /\ wavValidation = None
  /\ wavOutput = None
  /\ RestIdle

AddSample ==
  \E a \in AssignmentInputs :
    LET out == addSample(padAssignments, a)
    IN /\ Len(out.map) <= MaxHeld
       /\ padAssignments' = out.map
       /\ ret' = [op |-> "addSample", threw |-> out.threw, assignment |-> a]
       /\ UNCHANGED <<codecVars, wavVars, restVars>>

RemoveSample ==
  \E k \in PadInputs :
    /\ padAssignments' = removeSample(padAssignments, k[1], k[2])
    /\ ret' = [op |-> "removeSample", threw |-> None, bank |-> k[1], padNumber |-> k[2],
               deleted |-> MapHas(padAssignments, getPadKey(k[1], k[2]))]
    /\ UNCHANGED <<codecVars, wavVars, restVars>>

GetSample ==
  \E k \in PadInputs :
    /\ ret' = [op |-> "getSample", threw |-> None, bank |-> k[1], padNumber |-> k[2],
               value |-> getSample(padAssignments, k[1], k[2])]
    /\ UNCHANGED <<padAssignments, codecVars, wavVars, restVars>>

GetPadAssignments ==
  /\ ret' = [op |-> "getPadAssignments", threw |-> None,
             value |-> getPadAssignments(padAssignments)]
  /\ UNCHANGED <<padAssignments, codecVars, wavVars, restVars>>

Clear ==
  /\ padAssignments' = clear(padAssignments)
  /\ ret' = [op |-> "clear", threw |-> None]
  /\ UNCHANGED <<codecVars, wavVars, restVars>>

CreateDiskImage ==
  LET out == createDiskImage(padAssignments)
  IN /\ ret' = [op |-> "createDiskImage", threw |-> out.threw, image |-> out.image]
     /\ UNCHANGED <<padAssignments, codecVars, wavVars, restVars>>

Next ==
  \/ AddSample
  \/ RemoveSample
  \/ GetSample
  \/ GetPadAssignments
  \/ Clear
  \/ CreateDiskImage

Spec == Init /\ [][Next]_vars

(***************************************************************************)
(* Helpers of the properties.                                              *)
(***************************************************************************)
\* every order in which the entries of the map m can have been inserted
Orderings(m) ==
  LET n == Len(m)
      perms == {f \in [1..n -> 1..n] : \A i, j \in 1..n : f[i] = f[j] => i = j}
  IN {[i \in 1..n |-> m[f[i]]] : f \in perms}

BuiltImage == ret.op = "createDiskImage" /\ ret.threw = None

\* the assignments in the order createDiskImage lays them out
Sorted == sortAssignments(getPadAssignments(padAssignments))

RECURSIVE layoutOffsets(_, _)
\* the offsets at which the loop of createDiskImage puts the data of the
\* sorted assignments, starting with the cursor at cur, followed by the
\* final cursor (the arithmetic of the loop alone, without the writes)
layoutOffsets(sorted, cur) ==
  IF sorted = <<>> THEN <<cur>>
  ELSE LET aligned == IF cur % SP1200_SAMPLE_ALIGN # 0 THEN AlignUp(cur) ELSE cur
           endMarkerOffset == aligned + Head(sorted).data.length
       IN <<aligned>> \o layoutOffsets(Tail(sorted), AlignUp(endMarkerOffset))

Offsets == layoutOffsets(Sorted, SP1200_SAMPLE_DATA_OFFSET)

FinalCursor == Offsets[Len(Offsets)]

Occupied(k) ==
  \E i \in 1..Len(padAssignments) :
    getPadIndex(padAssignments[i].value.bank, padAssignments[i].value.padNumber) = k

\* C1: createDiskImage is order-independent: whatever the order in which
\* the assignments the builder holds were added, the outcome of
\* createDiskImage (the image, byte for byte) is the same.
C1_OrderIndependent ==
  ret.op = "createDiskImage" =>
    \A m \in Orderings(padAssignments) :
      createDiskImage(m) = [threw |-> ret.threw, image |-> ret.image]

\* an image was built from two or more assignments added out of order
C1_Witness ==
  /\ BuiltImage
  /\ Len(padAssignments) >= 2
  /\ getPadAssignments(padAssignments) # Sorted

\* C2: parseSP1200Disk(createDiskImage()) returns exactly one sample per
\* assignment held, with the same bank, padNumber, name and data.
C2_DiskRoundTrip ==
  BuiltImage =>
    LET p == parseSP1200Disk(ret.image)
    IN /\ p.threw = None
       /\ Len(p.samples) = Len(padAssignments)
       /\ \A i \in 1..Len(padAssignments) :
            LET a == padAssignments[i].value
                hits == {j \in 1..Len(p.samples) :
                           /\ p.samples[j].bank = a.bank
                           /\ p.samples[j].padNumber = a.padNumber}
            IN /\ Cardinality(hits) = 1
               /\ \A j \in hits : /\ p.samples[j].name = a.name
                                  /\ p.samples[j].data = a.data

\* C3: when the layout moves the final cursor past the disk capacity,
\* createDiskImage fails with 'Disk image exceeds maximum size'.
C3_CapacityError ==
  (ret.op = "createDiskImage" /\ FinalCursor > SP1200_DISK_SIZE) =>
    ret.threw = Some("Disk image exceeds maximum size")

\* C4: in every returned image the two bytes right after each pad's sample
\* data hold the end marker 0x8000, little-endian.
C4_EndMarkers ==
  BuiltImage =>
    \A i \in 1..Len(Sorted) :
      GetUint16LE(ret.image, Offsets[i] + Sorted[i].data.length) = SP1200_END_MARKER

\* C5: in every returned image the table slot of every unoccupied pad is
\* all zero and so are the bytes between the pad table and the sample data.
C5_EntryFrame ==
  BuiltImage =>
    \A o \in DOMAIN ret.image.nz :
      /\ (o >= SP1200_PAD_TABLE_OFFSET
          /\ o < SP1200_PAD_TABLE_OFFSET + SP1200_MAX_PADS * SP1200_PAD_ENTRY_SIZE)
         => Occupied((o - SP1200_PAD_TABLE_OFFSET) \div SP1200_PAD_ENTRY_SIZE)
      /\ ~(o >= SP1200_PAD_TABLE_OFFSET + SP1200_MAX_PADS * SP1200_PAD_ENTRY_SIZE
           /\ o < SP1200_SAMPLE_DATA_OFFSET)

\* C10: every image createDiskImage returns is exactly 824,576 bytes long.
C10_ImageLength == BuiltImage => ret.image.length = 824576

\* images were returned for an empty builder and for a builder holding pads
C10_Witness == BuiltImage /\ Len(padAssignments) = MaxHeld

AllPads == {"A", "B", "C", "D"} \X (1..8)

\* the entries of the map m that sit on pad (bank, padNumber)
EntriesOn(m, bank, padNumber) ==
  {i \in 1..Len(m) : m[i].value.bank = bank /\ m[i].value.padNumber = padNumber}

\* C6: addSample fails exactly when the bank is not one of A, B, C, D or
\* the padNumber is outside 1..8, and a failing addSample leaves the
\* builder's assignments unchanged.
C6_AddValidation ==
  [][ret'.op = "addSample" =>
       LET a == ret'.assignment
       IN /\ (ret'.threw # None) <=>
               (a.bank \notin {"A", "B", "C", "D"} \/ a.padNumber \notin 1..8)
          /\ (ret'.threw # None) => (padAssignments' = padAssignments)]_vars

\* an addSample failed on a builder that holds assignments
C6_Witness ==
  /\ ret.op = "addSample"
  /\ ret.threw # None
  /\ Len(padAssignments) >= 1

\* C7: after a successful addSample(a) the builder holds exactly one
\* assignment for (a.bank, a.padNumber), namely a with its name cut to the
\* first 12 characters, and the assignments of all other pads are unchanged;
\* the builder always holds at most 32 assignments, no two on the same pad.
C7_AddReplaces ==
  /\ [](/\ Len(padAssignments) <= 32
        /\ \A i \in 1..Len(padAssignments) :
             /\ <<padAssignments[i].value.bank, padAssignments[i].value.padNumber>>
                  \in AllPads
             /\ EntriesOn(padAssignments, padAssignments[i].value.bank,
                          padAssignments[i].value.padNumber) = {i})
  /\ [][(ret'.op = "addSample" /\ ret'.threw = None) =>
          LET a == ret'.assignment
              cut == IF Len(a.name) <= 12 THEN a.name ELSE SubSeq(a.name, 1, 12)
          IN /\ Cardinality(EntriesOn(padAssignments', a.bank, a.padNumber)) = 1
             /\ getSample(padAssignments', a.bank, a.padNumber)
                  = Some([a EXCEPT !.name = cut])
             /\ \A k \in AllPads \ {<<a.bank, a.padNumber>>} :
                  /\ getSample(padAssignments', k[1], k[2])
                       = getSample(padAssignments, k[1], k[2])
                  /\ Cardinality(EntriesOn(padAssignments', k[1], k[2]))
                       = Cardinality(EntriesOn(padAssignments, k[1], k[2]))]_vars

\* an assignment with a 13-character name was added onto the pad that was
\* filled first, while the builder holds other pads too
C7_Witness ==
  /\ ret.op = "addSample"
  /\ ret.threw = None
  /\ Len(ret.assignment.name) > 12
  /\ Len(padAssignments) >= 2
  /\ EntriesOn(padAssignments, ret.assignment.bank, ret.assignment.padNumber) = {1}

\* C8: removeSample(bank, pad) removes exactly the assignment at (bank, pad)
\* and leaves every other pad unchanged; on an unoccupied pad it changes
\* nothing; afterwards getSample(bank, pad) returns nothing; clear() leaves
\* the builder with no assignments.
C8_RemoveClear ==
  [][/\ ret'.op = "removeSample" =>
          /\ getSample(padAssignments', ret'.bank, ret'.padNumber) = None
          /\ \A k \in AllPads \ {<<ret'.bank, ret'.padNumber>>} :
               getSample(padAssignments', k[1], k[2])
                 = getSample(padAssignments, k[1], k[2])
          /\ Len(padAssignments') =
               Len(padAssignments)
                 - Cardinality(EntriesOn(padAssignments, ret'.bank, ret'.padNumber))
          /\ (getSample(padAssignments, ret'.bank, ret'.padNumber) = None)
               => (padAssignments' = padAssignments)
     /\ ret'.op = "clear" => padAssignments' = <<>>]_vars

\* an occupied pad was removed from a builder that still holds other pads
C8_Witness ==
  /\ ret.op = "removeSample"
  /\ ret.deleted
  /\ Len(padAssignments) >= 1

(***************************************************************************)
(* The single-sample file codec: a sample is encoded by                    *)
(* createSP1200SampleFile and the file is decoded by parseSP1200File.      *)
(***************************************************************************)
\* "ABCDEFGHIJKL" (12 characters), "K\0K"
NameTwelve == SubSeq(NameLong, 1, 12)

NameNul == <<75, 0, 75>>

\* a payload one byte longer than the room after the sample data offset
DataTooBig == [length |-> 820481, nz |-> (0 :> 9)]

\* a payload that fills the room after the sample data offset exactly
DataFull == [length |-> 820480, nz |-> (0 :> 9) @@ (820479 :> 7)]

SampleInputs ==
  [name : {<<>>, NameKick, NameTwelve, NameLong, NameHat, NameEacute, NameNul},
   bank : {"A", "B"},
   padNumber : {1, 2},
   data : {DataEmpty, DataWord, DataOdd, Data256, DataFull, DataTooBig},
   sampleRate : {SP1200_SAMPLE_RATE, 44100},
   bitsPerSample : {12, 16},
   length : {0, 1, 128},
   metadata : {None}]

InitFile ==
  /\ sample \in SampleInputs
  /\ fileData = None
  /\ parsed = None
  /\ padAssignments = <<>>
  /\ ret = NoCall
  /\ wavBuffer = ZeroBytes(0)
  /\ wavTuning = 0
  /\ wavHeader = None
  /\ wavValidation = None
  /\ wavOutput = None
  /\ RestIdle

CreateFile ==
  /\ fileData = None
  /\ fileData' = Some(createSP1200SampleFile(sample))
  /\ UNCHANGED <<sample, parsed, builderVars, wavVars, restVars>>

ParseFile ==
  /\ fileData # None
  /\ fileData[1].threw = None
  /\ parsed = None
  /\ parsed' = Some(parseSP1200File(fileData[1].buffer))
  /\ UNCHANGED <<sample, fileData, builderVars, wavVars, restVars>>

NextFile ==
  \/ CreateFile
  \/ ParseFile

SpecFile == InitFile /\ [][NextFile]_vars

\* the sample is one the round trip is stated for: a name of at most 12
\* characters and data of at least one word
RoundTripCase == Len(sample.name) <= 12 /\ sample.data.length >= 2

\* C9 as stated: parseSP1200File(createSP1200SampleFile(s)) equals s in
\* name, bank, padNumber, data, sampleRate, bitsPerSample and length.
C9_FileRoundTrip ==
  RoundTripCase =>
    /\ fileData # None => fileData[1].threw = None
    /\ parsed # None =>
         /\ parsed[1].threw = None
         /\ parsed[1].sample[1].name = sample.name
         /\ parsed[1].sample[1].bank = sample.bank
         /\ parsed[1].sample[1].padNumber = sample.padNumber
         /\ parsed[1].sample[1].data = sample.data
         /\ parsed[1].sample[1].sampleRate = sample.sampleRate
         /\ parsed[1].sample[1].bitsPerSample = sample.bitsPerSample
         /\ parsed[1].sample[1].length = sample.length

\* the samples whose name and data the file stores as they are: the name is
\* ASCII without NUL and without white space at either end, the data has an
\* even length and fits between the sample data offset and the disk's end
StoredAsIs ==
  /\ RoundTripCase
  /\ \A i \in 1..Len(sample.name) : sample.name[i] >= 1 /\ sample.name[i] <= 127
  /\ sample.name # <<>> =>
       /\ sample.name[1] \notin {9, 10, 11, 12, 13, 32}
       /\ sample.name[Len(sample.name)] \notin {9, 10, 11, 12, 13, 32}
  /\ sample.data.length % 2 = 0
  /\ sample.data.length <= 824576 - 4096

\* C9 amended: for such a sample the file is created and parsed without
\* error and gives back the sample's name and data, the length in words
\* of the data, and always bank A, pad 1, 26040 Hz and 12 bits.
C9_FileRoundTripAmended ==
  StoredAsIs =>
    /\ fileData # None => fileData[1].threw = None
    /\ parsed # None =>
         /\ parsed[1].threw = None
         /\ parsed[1].sample[1].name = sample.name
         /\ parsed[1].sample[1].data = sample.data
         /\ 2 * parsed[1].sample[1].length = sample.data.length
         /\ parsed[1].sample[1].bank = "A"
         /\ parsed[1].sample[1].padNumber = 1
         /\ parsed[1].sample[1].sampleRate = 26040
         /\ parsed[1].sample[1].bitsPerSample = 12

\* a sample for bank B with a 12-character name and a payload that fills
\* the disk has been encoded and decoded
C9_Witness ==
  /\ StoredAsIs
  /\ parsed # None
  /\ Len(sample.name) = 12
  /\ sample.bank = "B"
  /\ sample.data = DataFull

(***************************************************************************)
(* The pad table of a built image.                                         *)
(***************************************************************************)
\* the offset of the table entry of pad (bank, padNumber)
EntryOffset(bank, padNumber) ==
  SP1200_PAD_TABLE_OFFSET + getPadIndex(bank, padNumber) * SP1200_PAD_ENTRY_SIZE

\* C11: index(bank, pad) = bankOffset(bank) + (pad - 1) is a bijection from
\* {A,B,C,D} x {1..8} onto 0..31; the pads the builder holds sit on
\* distinct indices in 0..31.
C11_PadIndexBijection ==
  /\ \A p, q \in AllPads :
       getPadIndex(p[1], p[2]) = getPadIndex(q[1], q[2]) => p = q
  /\ {getPadIndex(p[1], p[2]) : p \in AllPads} = 0..31
  /\ \A i, j \in 1..Len(padAssignments) :
       LET a == padAssignments[i].value
           b == padAssignments[j].value
       IN /\ getPadIndex(a.bank, a.padNumber) \in 0..31
          /\ getPadIndex(a.bank, a.padNumber) = getPadIndex(b.bank, b.padNumber)
               => i = j

\* an image was built from the first pad, the last pad and one between
C11_Witness ==
  /\ ret.op = "createDiskImage"
  /\ Occupied(0)
  /\ Occupied(31)
  /\ Len(padAssignments) = 3

\* C12: in every returned image the table entry of each occupied pad lies
\* at 0x800 + 32*index(bank,pad) and holds the word count (byte length / 2,
\* whole words) and a data offset that is a multiple of 256, at least
\* 0x1000, and the place where the pad's sample bytes are; the data regions
\* of distinct pads do not overlap.
C12_TableEntries ==
  BuiltImage =>
    /\ \A i \in 1..Len(Sorted) :
         LET a == Sorted[i]
             e == EntryOffset(a.bank, a.padNumber)
             off == GetUint32LE(ret.image, e + 16)
         IN /\ GetUint32LE(ret.image, e + 12) = a.data.length \div 2
            /\ off % 256 = 0
            /\ off >= 4096
            /\ off = Offsets[i]
            /\ Slice(ret.image, off, a.data.length) = a.data
    /\ \A i, j \in 1..Len(Sorted) :
         i < j =>
           LET oi == GetUint32LE(ret.image, EntryOffset(Sorted[i].bank, Sorted[i].padNumber) + 16)
               oj == GetUint32LE(ret.image, EntryOffset(Sorted[j].bank, Sorted[j].padNumber) + 16)
           IN \/ oi + Sorted[i].data.length <= oj
              \/ oj + Sorted[j].data.length <= oi

\* an image with the 128-word sample on A1 (entry at 0x800, data at 0x1000)
\* followed by two more pads
C12_Witness ==
  /\ BuiltImage
  /\ Len(Sorted) = 3
  /\ Sorted[1].bank = "A" /\ Sorted[1].padNumber = 1
  /\ GetUint32LE(ret.image, 2048 + 12) = 128
  /\ GetUint32LE(ret.image, 2048 + 16) = 4096
  /\ Sorted[2].data.length > 0

\* C13: the volume byte at offset 0x19 of a pad's entry equals the metadata
\* volume for every volume in 0..255, and is 255 when the metadata or its
\* volume is absent.
C13_VolumeByte ==
  BuiltImage =>
    \A i \in 1..Len(Sorted) :
      LET a == Sorted[i]
          byte == GetUint8(ret.image, EntryOffset(a.bank, a.padNumber) + 25)
      IN IF a.metadata = None THEN byte = 255
         ELSE IF a.metadata[1].volume = None THEN byte = 255
         ELSE byte = a.metadata[1].volume[1]

(***************************************************************************)
(* parseWavHeader: the RIFF/WAVE header check and the chunk scan from      *)
(* byte 12.  A descriptor is [audioFormat, channels, sampleRate,           *)
(* bitsPerSample, dataOffset, dataLength]; the outcome is [threw, wav].    *)
(***************************************************************************)
WAV_MIN_HEADER == 44

WAV_FIRST_CHUNK == 12

TagRIFF == <<82, 73, 70, 70>>

TagWAVE == <<87, 65, 86, 69>>

TagFmt == <<102, 109, 116, 32>>

TagData == <<100, 97, 116, 97>>

\* String.fromCharCode(view.getUint8(off), ..., view.getUint8(off + 3))
ReadTag(buf, off) ==
  <<GetUint8(buf, off), GetUint8(buf, off + 1), GetUint8(buf, off + 2),
    GetUint8(buf, off + 3)>>

\* the locals of the chunk scan before its first iteration
ScanStart ==
  [offset |-> WAV_FIRST_CHUNK, foundFmt |-> FALSE, audioFormat |-> 0,
   channels |-> 0, sampleRate |-> 0, bitsPerSample |-> 0,
   dataOffset |-> 0, dataLength |-> 0, threw |-> FALSE]

\* while (offset < buffer.byteLength - 8)
ScanContinues(buf, st) == ~st.threw /\ st.offset < buf.length - 8

\* a step that forgets the padding byte of an odd chunk
NextChunkOffset_NoPad(offset, chunkSize) == offset + 8 + chunkSize

\* a step that does not move
NextChunkOffset_Stay(offset, chunkSize) == offset

\* offset += 8 + chunkSize, and one more when chunkSize is odd
NextChunkOffset(offset, chunkSize) ==
  offset + 8 + chunkSize + (IF chunkSize % 2 # 0 THEN 1 ELSE 0)

\* the body of `if (chunkId === 'fmt ')`: the DataView reads of the fields
\* at offset+8, +10, +12 throw RangeError when they pass the buffer's end
ReadFmt(buf, st, offset) ==
  IF offset + 16 > buf.length
  THEN [st EXCEPT !.foundFmt = TRUE, !.threw = TRUE]
  ELSE [st EXCEPT !.foundFmt = TRUE,
                  !.audioFormat = GetUint16LE(buf, offset + 8),
                  !.channels = GetUint16LE(buf, offset + 10),
                  !.sampleRate = GetUint32LE(buf, offset + 12),
                  !.bitsPerSample =
                     IF offset + 22 + 2 <= buf.length
                     THEN GetUint16LE(buf, offset + 22)
                     ELSE 16]

\* one iteration of the scan loop
ScanStep(buf, st) ==
  LET chunkId == ReadTag(buf, st.offset)
      chunkSize == GetUint32LE(buf, st.offset + 4)
      seen == IF chunkId = TagFmt THEN ReadFmt(buf, st, st.offset)
              ELSE IF chunkId = TagData
                   THEN [st EXCEPT !.dataOffset = st.offset + 8,
                                   !.dataLength = chunkSize]
                   ELSE st
  IN IF seen.threw THEN seen
     ELSE [seen EXCEPT !.offset = NextChunkOffset(st.offset, chunkSize)]

RECURSIVE ScanChunks(_, _)
\* the whole loop
ScanChunks(buf, st) ==
  IF ScanContinues(buf, st) THEN ScanChunks(buf, ScanStep(buf, st)) ELSE st

WavOf(st) ==
  [audioFormat |-> st.audioFormat, channels |-> st.channels,
   sampleRate |-> st.sampleRate, bitsPerSample |-> st.bitsPerSample,
   dataOffset |-> st.dataOffset, dataLength |-> st.dataLength]

\* a scan outcome that returns whatever the scan left
ScanResult_Unchecked(st) ==
  IF st.threw THEN [threw |-> Some("Invalid WAV: error parsing header")]
  ELSE [threw |-> None, wav |-> WavOf(st)]

\* the catch around the loop and the two checks after it
ScanResult(st) ==
  IF st.threw THEN [threw |-> Some("Invalid WAV: error parsing header")]
  ELSE IF ~st.foundFmt THEN [threw |-> Some("Invalid WAV: fmt chunk not found")]
  ELSE IF st.dataOffset = 0
       THEN [threw |-> Some("Invalid WAV: data chunk not found")]
  ELSE [threw |-> None, wav |-> WavOf(st)]

\* the checks before the scan
HeaderError(buf) ==
  IF buf.length < WAV_MIN_HEADER THEN Some("Invalid WAV: file too small")
  ELSE IF ReadTag(buf, 0) # TagRIFF
       THEN Some("Invalid WAV: RIFF header not found")
  ELSE IF ReadTag(buf, 8) # TagWAVE
       THEN Some("Invalid WAV: WAVE format not found")
  ELSE None

parseWavHeader(buf) ==
  IF HeaderError(buf) # None THEN [threw |-> HeaderError(buf)]
  ELSE ScanResult(ScanChunks(buf, ScanStart))

(***************************************************************************)
(* validateWavFormat: the outcome is [isValid, error].  The error is the   *)
(* message without the numbers the source interpolates into it.            *)
(***************************************************************************)
WAV_MIN_RATE == 8000

WAV_MAX_RATE == 192000

WAV_MIN_SAMPLES == 100

\* a validation that takes rates strictly above the minimum only
validateWavFormat_RateAbove(wav) ==
  IF wav.audioFormat # 1
  THEN [isValid |-> FALSE, error |-> Some("Unsupported audio format")]
  ELSE IF wav.sampleRate <= WAV_MIN_RATE \/ wav.sampleRate > WAV_MAX_RATE
  THEN [isValid |-> FALSE, error |-> Some("Invalid sample rate")]
  ELSE IF wav.bitsPerSample \notin {8, 16, 24}
  THEN [isValid |-> FALSE, error |-> Some("Unsupported bits per sample")]
  ELSE IF wav.channels < 1 \/ wav.channels > 2
  THEN [isValid |-> FALSE, error |-> Some("Unsupported channel count")]
  ELSE IF wav.dataLength * 8 < WAV_MIN_SAMPLES * wav.bitsPerSample * wav.channels
  THEN [isValid |-> FALSE, error |-> Some("Sample too short")]
  ELSE [isValid |-> TRUE, error |-> None]

\* numSamples = dataLength / (bitsPerSample / 8) / channels is a real
\* number: numSamples < minSamples is compared after cross-multiplying
validateWavFormat(wav) ==
  IF wav.audioFormat # 1
  THEN [isValid |-> FALSE, error |-> Some("Unsupported audio format")]
  ELSE IF wav.sampleRate < WAV_MIN_RATE \/ wav.sampleRate > WAV_MAX_RATE
  THEN [isValid |-> FALSE, error |-> Some("Invalid sample rate")]
  ELSE IF wav.bitsPerSample \notin {8, 16, 24}
  THEN [isValid |-> FALSE, error |-> Some("Unsupported bits per sample")]
  ELSE IF wav.channels < 1 \/ wav.channels > 2
  THEN [isValid |-> FALSE, error |-> Some("Unsupported channel count")]
  ELSE IF wav.dataLength * 8 < WAV_MIN_SAMPLES * wav.bitsPerSample * wav.channels
  THEN [isValid |-> FALSE, error |-> Some("Sample too short")]
  ELSE [isValid |-> TRUE, error |-> None]

(***************************************************************************)
(* getSample(index, view, wav) of the converter.  A sample is a fraction   *)
(* of full scale; the model keeps its numerator over the denominator       *)
(* SampleScale(wav), so that every sample of one file is an integer over   *)
(* the same denominator and no rounding happens.                           *)
(***************************************************************************)
Abs(x) == IF x < 0 THEN -x ELSE x

Max(a, b) == IF a > b THEN a ELSE b

\* 128, 32768 or 8388608
FullScale(bitsPerSample) == 2 ^ (bitsPerSample - 1)

\* the denominator of the samples of a file: full scale, doubled by the
\* stereo mix (l / fs + r / fs) / 2
SampleScale(wav) == FullScale(wav.bitsPerSample) * wav.channels

\* the signed value of one channel's sample at off (little endian;
\* 8-bit samples are unsigned with a bias of 128)
ChannelValue(buf, off, bitsPerSample) ==
  IF bitsPerSample = 8 THEN GetUint8(buf, off) - 128
  ELSE IF bitsPerSample = 16
  THEN LET u == GetUint16LE(buf, off)
       IN IF u >= 32768 THEN u - 65536 ELSE u
  ELSE LET u == GetUint16LE(buf, off) + 65536 * GetUint8(buf, off + 2)
       IN IF u >= 8388608 THEN u - 16777216 ELSE u

\* the numerator of getSample(index, view, wav): 0 when the sample starts
\* at or after the end of the buffer, and 0 when a read of it passes the
\* end (the RangeError is caught)
wavGetSample(index, buf, wav) ==
  LET bytesPerSample == wav.bitsPerSample \div 8
      sampleOffset == wav.dataOffset + index * bytesPerSample * wav.channels
  IN IF sampleOffset >= buf.length THEN 0
     ELSE IF sampleOffset + bytesPerSample * wav.channels > buf.length THEN 0
     ELSE IF wav.channels = 2
     THEN ChannelValue(buf, sampleOffset, wav.bitsPerSample)
            + ChannelValue(buf, sampleOffset + bytesPerSample, wav.bitsPerSample)
     ELSE ChannelValue(buf, sampleOffset, wav.bitsPerSample)

(***************************************************************************)
(* convertWavToSP1200Format(wavBuffer, tuning).  Tunings are whole         *)
(* octaves, for which 2^(tuning/12) and every rate ratio are rationals     *)
(* [num, den]; the floors below are the floors of the exact quotients.     *)
(***************************************************************************)
SP1200_MAX_SAMPLES == 65100

SP1200_BLOCK_SIZE == 256

SAMPLE_BIAS == 32768

SAMPLE_MAX12 == 4095

RECURSIVE GCD(_, _)
GCD(a, b) == IF b = 0 THEN a ELSE GCD(b, a % b)

Reduced(num, den) ==
  LET g == GCD(num, den) IN [num |-> num \div g, den |-> den \div g]

\* Math.pow(2, tuning / 12) for a tuning that is a multiple of 12
pitchRatio(tuning) ==
  IF tuning >= 0 THEN [num |-> 2 ^ (tuning \div 12), den |-> 1]
  ELSE [num |-> 1, den |-> 2 ^ ((-tuning) \div 12)]

\* targetSampleRate / wav.sampleRate
rateRatio(wav, tuning) ==
  Reduced(SP1200_SAMPLE_RATE * pitchRatio(tuning).num,
          wav.sampleRate * pitchRatio(tuning).den)

\* Math.floor(wav.dataLength / (wav.bitsPerSample / 8) / wav.channels)
numInputSamplesOf(wav) ==
  (wav.dataLength * 8) \div (wav.bitsPerSample * wav.channels)

\* an output count cut one sample late
numOutputSamplesOf_OneMore(wav, tuning) ==
  Min((numInputSamplesOf(wav) * rateRatio(wav, tuning).num)
         \div rateRatio(wav, tuning).den,
      SP1200_MAX_SAMPLES + 1)

\* Math.min(Math.floor(numInputSamples * (targetSampleRate / sampleRate)),
\*          maxSamples)
numOutputSamplesOf(wav, tuning) ==
  Min((numInputSamplesOf(wav) * rateRatio(wav, tuning).num)
         \div rateRatio(wav, tuning).den,
      SP1200_MAX_SAMPLES)

\* an output size of exactly the sample bytes
outputBytesOf_Exact(numOutputSamples) == numOutputSamples * 2

\* Math.ceil(numBytes / SP1200_BLOCK_SIZE) * SP1200_BLOCK_SIZE
outputBytesOf(numOutputSamples) ==
  ((numOutputSamples * 2 + SP1200_BLOCK_SIZE - 1) \div SP1200_BLOCK_SIZE)
     * SP1200_BLOCK_SIZE

\* Math.floor(i * wav.sampleRate / targetSampleRate)
inputIndexOf(i, wav, tuning) ==
  (i * rateRatio(wav, tuning).den) \div rateRatio(wav, tuning).num

\* Math.round of the non-negative fraction num / den
RoundFraction(num, den) == (2 * num + den) \div (2 * den)

\* peakValue > 0 ? 4095 / peakValue : 1, for peakValue = peak / scale
normalizationFactor(peak, scale) ==
  IF peak > 0
  THEN [num |-> SAMPLE_MAX12 * Reduced(scale, peak).num,
        den |-> Reduced(scale, peak).den]
  ELSE [num |-> 1, den |-> 1]

\* Math.round((sample + 32768) * normalizationFactor / 16) for
\* sample = n / scale
scaledSample(n, peak, scale) ==
  LET whole == SAMPLE_BIAS + (n \div scale)
      r == Reduced(n % scale, scale)
      f == normalizationFactor(peak, scale)
  IN RoundFraction((whole * r.den + r.num) * f.num, 16 * r.den * f.den)

\* (sample + 32768) * normalizationFactor / 16 is 4096 or more: with
\* whole = floor(sample + 32768) it is at least
\* whole * 4095 * scale / (16 * peak)
saturates(n, peak, scale) ==
  /\ peak > 0
  /\ peak \div scale < ((SAMPLE_BIAS + (n \div scale)) * SAMPLE_MAX12) \div 65536

\* a quantizer with the limits of a 16-bit word
sample12bit_Sixteen(n, peak, scale) ==
  IF saturates(n, peak, scale) THEN 65535
  ELSE Min(65535, Max(0, scaledSample(n, peak, scale))) % 65536

\* Math.min(4095, Math.max(0, Math.round(...))) & 0x0FFF; a product of
\* 4096 or more is cut to 4095 by Math.min whatever its exact value
sample12bit(n, peak, scale) ==
  IF saturates(n, peak, scale) THEN SAMPLE_MAX12 % 4096
  ELSE Min(SAMPLE_MAX12, Max(0, scaledSample(n, peak, scale))) % 4096

\* Math.max(...values) of a non-empty set of numbers
SetMax(values) == CHOOSE v \in values : \A w \in values : w <= v

\* the converter after the header was parsed and validated
convertSamples(buf, wav, tuning) ==
  LET numInputSamples == numInputSamplesOf(wav)
      numOutputSamples == numOutputSamplesOf(wav, tuning)
      outputBytes == outputBytesOf(numOutputSamples)
      inputSamples == [i \in 0..(numInputSamples - 1) |-> wavGetSample(i, buf, wav)]
      peakValue == SetMax({Abs(inputSamples[i]) : i \in 0..(numInputSamples - 1)})
      scale == SampleScale(wav)
      word == [i \in 0..(numOutputSamples - 1) |->
                 sample12bit(inputSamples[Min(inputIndexOf(i, wav, tuning),
                                              numInputSamples - 1)],
                             peakValue, scale)]
      byteAt(o) == IF o < numOutputSamples * 2
                   THEN IF o % 2 = 0 THEN word[o \div 2] % 256
                        ELSE word[o \div 2] \div 256
                   ELSE IF o % 2 = 0 THEN SP1200_END_MARKER % 256
                        ELSE SP1200_END_MARKER \div 256
  IN [threw |-> None,
      numOutputSamples |-> numOutputSamples,
      warned |-> numOutputSamples >= SP1200_MAX_SAMPLES,
      output |-> [length |-> outputBytes,
                  nz |-> [o \in {k \in 0..(outputBytes - 1) : byteAt(k) # 0}
                            |-> byteAt(o)]]]

convertWavToSP1200Format(buf, tuning) ==
  LET header == parseWavHeader(buf)
  IN IF header.threw # None THEN [threw |-> header.threw]
     ELSE IF ~validateWavFormat(header.wav).isValid
     THEN [threw |-> Some("Invalid WAV file: "
                             \o validateWavFormat(header.wav).error[1])]
     ELSE convertSamples(buf, header.wav, tuning)

(***************************************************************************)
(* WAV buffers the functions are applied to.                               *)
(***************************************************************************)
\* the bytes of a followed by those of b
Concat(a, b) ==
  [length |-> a.length + b.length,
   nz |-> [i \in DOMAIN a.nz \cup {a.length + j : j \in DOMAIN b.nz} |->
             IF i < a.length THEN a.nz[i] ELSE b.nz[i - a.length]]]

RECURSIVE ConcatAll(_)
ConcatAll(parts) ==
  IF parts = <<>> THEN ZeroBytes(0)
  ELSE Concat(parts[1], ConcatAll(Tail(parts)))

U16(v) == BytesOf(<<v % 256, v \div 256>>)

U32(v) ==
  BytesOf(<<v % 256, (v \div 256) % 256, (v \div 65536) % 256, v \div 16777216>>)

\* n bytes repeating the byte pattern pat
Repeated(pat, n) ==
  [length |-> n,
   nz |-> [i \in {k \in 0..(n - 1) : pat[(k % Len(pat)) + 1] # 0} |->
             pat[(i % Len(pat)) + 1]]]

\* a chunk: tag, declared size, and the bytes that follow the size field
Chunk(tag, size, body) == ConcatAll(<<BytesOf(tag), U32(size), body>>)

\* a 16-byte PCM format chunk
FmtChunk(audioFormat, channels, sampleRate, bitsPerSample) ==
  Chunk(TagFmt, 16,
        ConcatAll(<<U16(audioFormat), U16(channels), U32(sampleRate),
                    U32(sampleRate * channels * (bitsPerSample \div 8)),
                    U16(channels * (bitsPerSample \div 8)), U16(bitsPerSample)>>))

\* a data chunk whose declared size is the size of its body
DataChunk(body) == Chunk(TagData, body.length, body)

\* a file with the given form tags and chunks
TaggedFile(riff, wave, chunks) ==
  LET body == ConcatAll(chunks)
  IN ConcatAll(<<BytesOf(riff), U32(body.length + 4), BytesOf(wave), body>>)

RiffFile(chunks) == TaggedFile(TagRIFF, TagWAVE, chunks)

\* the least data size validateWavFormat takes for a format
MinDataBytes(channels, bitsPerSample) ==
  WAV_MIN_SAMPLES * channels * (bitsPerSample \div 8)

\* formats on and around every limit of validateWavFormat:
\* <<audioFormat, channels, sampleRate, bitsPerSample>>
FormatInputs ==
  {<<1, 1, 44100, 16>>, <<1, 2, 44100, 16>>, <<1, 1, 8000, 8>>,
   <<1, 2, 22050, 8>>, <<1, 1, 48000, 24>>, <<1, 2, 96000, 24>>,
   <<1, 1, 192000, 16>>, <<1, 1, 8000, 16>>,
   <<3, 1, 44100, 16>>, <<0, 1, 44100, 16>>, <<1, 0, 44100, 16>>,
   <<1, 3, 44100, 16>>, <<1, 1, 7999, 16>>, <<1, 1, 192001, 16>>,
   <<1, 1, 44100, 12>>, <<1, 1, 44100, 32>>, <<1, 2, 44100, 0>>}

\* silent files of each format, one byte short of the least size and of
\* exactly the least size (400 bytes where the format has none)
FormatFiles ==
  {RiffFile(<<FmtChunk(f[1], f[2], f[3], f[4]), DataChunk(ZeroBytes(n))>>) :
     f \in FormatInputs,
     n \in {399, 400}}
  \cup
  {RiffFile(<<FmtChunk(1, f[1], 44100, f[2]),
              DataChunk(ZeroBytes(MinDataBytes(f[1], f[2]) - d))>>) :
     f \in {1, 2} \X {8, 16, 24}, d \in {0, 1}}

\* 8-bit samples 0, 127, -128, 32, -32
Pattern8 == <<128, 255, 0, 160, 96>>

\* 16-bit samples 0, 16384, -16384, 8192
Pattern16 == <<0, 0, 0, 64, 0, 192, 0, 32>>

\* 24-bit samples 0, 4194304, -4194304, 2097152
Pattern24 == <<0, 0, 0, 0, 0, 64, 0, 0, 192, 0, 0, 32>>

PatternOf(bitsPerSample) ==
  IF bitsPerSample = 8 THEN Pattern8
  ELSE IF bitsPerSample = 16 THEN Pattern16 ELSE Pattern24

\* files with a waveform, mono and stereo, of the least size and 7 bytes
\* more (an odd size, with a part of a sample at the end)
PatternFiles ==
  {RiffFile(<<FmtChunk(1, f[1], f[3], f[2]),
              DataChunk(Repeated(PatternOf(f[2]), MinDataBytes(f[1], f[2]) + d))>>) :
     f \in {1, 2} \X {8, 16, 24} \X {8000, 44100}, d \in {0, 7}}

Fmt16 == FmtChunk(1, 1, 44100, 16)

Data200 == DataChunk(Repeated(Pattern16, 200))

TagJunk == <<74, 85, 78, 75>>

\* a chunk of odd size 3 with its padding byte
JunkOdd == Chunk(TagJunk, 3, BytesOf(<<1, 2, 3, 0>>))

Junk12 == Chunk(TagJunk, 12, ZeroBytes(12))

\* a file of 30 bytes: an empty fmt chunk and a data chunk of one byte
ShortFile ==
  RiffFile(<<Chunk(TagFmt, 0, ZeroBytes(0)), Chunk(TagData, 1, BytesOf(<<7, 0>>))>>)

\* files whose chunks are missing, reordered, cut short or oversized
LayoutFiles ==
  {RiffFile(<<JunkOdd, Fmt16, Data200>>),
   RiffFile(<<Data200, Fmt16>>),
   RiffFile(<<Fmt16, Data200, Junk12>>),
   RiffFile(<<Fmt16, Data200, Chunk(TagData, 0, ZeroBytes(0))>>),
   RiffFile(<<Fmt16, Junk12>>),
   RiffFile(<<Data200>>),
   RiffFile(<<Junk12, Junk12, JunkOdd>>),
   RiffFile(<<Data200, Chunk(TagFmt, 16, ZeroBytes(4))>>),
   RiffFile(<<Fmt16, Chunk(TagData, 400, Repeated(Pattern16, 200))>>),
   RiffFile(<<Fmt16, Chunk(TagData, 300, Repeated(Pattern16, 299))>>),
   TaggedFile(<<82, 73, 70, 88>>, TagWAVE, <<Fmt16, Data200>>),
   TaggedFile(TagRIFF, <<87, 65, 86, 88>>, <<Fmt16, Data200>>),
   ShortFile,
   ZeroBytes(0),
   Slice(RiffFile(<<Fmt16, Data200>>), 0, 43)}

\* a silent 16-bit file of 8000 Hz that exceeds the machine's 2.5 seconds
\* at the untuned rate by one input sample (20001 samples)
LongFiles == {RiffFile(<<FmtChunk(1, 1, 8000, 16), DataChunk(ZeroBytes(40002))>>)}

WavInputs == FormatFiles \cup PatternFiles \cup LayoutFiles \cup LongFiles

\* tunings of whole octaves
TuningInputs == {-12, 0, 12}

(***************************************************************************)
(* The WAV functions applied to a buffer and a tuning.                     *)
(***************************************************************************)
InitWav ==
  /\ wavBuffer \in WavInputs
  /\ wavTuning \in TuningInputs
  /\ wavHeader = None
  /\ wavValidation = None
  /\ wavOutput = None
  /\ RestIdle
  /\ padAssignments = <<>>
  /\ ret = NoCall
  /\ sample = NoSample
  /\ fileData = None
  /\ parsed = None

ParseWav ==
  /\ wavHeader = None
  /\ wavHeader' = Some(parseWavHeader(wavBuffer))
  /\ UNCHANGED <<wavBuffer, wavTuning, wavValidation, wavOutput, builderVars, codecVars, restVars>>

ValidateWav ==
  /\ wavHeader # None
  /\ wavHeader[1].threw = None
  /\ wavValidation = None
  /\ wavValidation' = Some(validateWavFormat(wavHeader[1].wav))
  /\ UNCHANGED <<wavBuffer, wavTuning, wavHeader, wavOutput, builderVars, codecVars, restVars>>

ConvertWav ==
  /\ wavOutput = None
  /\ wavOutput' = Some(convertWavToSP1200Format(wavBuffer, wavTuning))
  /\ UNCHANGED <<wavBuffer, wavTuning, wavHeader, wavValidation, builderVars, codecVars, restVars>>

NextWav ==
  \/ ParseWav
  \/ ValidateWav
  \/ ConvertWav

SpecWav == InitWav /\ [][NextWav]_vars

(***************************************************************************)
(* Properties of the WAV functions.                                        *)
(***************************************************************************)
\* the descriptor of a buffer whose header parsed
Parsed == wavHeader # None /\ wavHeader[1].threw = None

\* what the claim takes for an acceptable descriptor
Acceptable(w) ==
  /\ w.audioFormat = 1
  /\ w.channels \in {1, 2}
  /\ w.bitsPerSample \in {8, 16, 24}
  /\ w.sampleRate >= 8000
  /\ w.sampleRate <= 192000
  /\ w.dataLength >= 100 * (w.bitsPerSample \div 8) * w.channels

\* C14: validateWavFormat accepts a descriptor exactly when audioFormat is
\* 1, channels is 1 or 2, bitsPerSample is 8, 16 or 24, the sample rate is
\* in 8000..192000 and dataLength / (bitsPerSample / 8) / channels is at
\* least 100; a rejection carries an error, an acceptance none; the call
\* leaves the descriptor as it was.
C14_ValidateIff ==
  [][wavValidation' # wavValidation =>
       /\ wavHeader' = wavHeader
       /\ wavValidation'[1].isValid <=> Acceptable(wavHeader[1].wav)
       /\ wavValidation'[1].isValid <=> wavValidation'[1].error = None]_vars

\* a 24-bit stereo descriptor of exactly 100 samples at the lowest rate
\* was accepted
C14_Witness ==
  /\ Parsed
  /\ wavValidation # None
  /\ wavValidation[1].isValid
  /\ wavHeader[1].wav.sampleRate = 8000
  /\ wavHeader[1].wav.bitsPerSample = 24
  /\ wavHeader[1].wav.channels = 2
  /\ wavHeader[1].wav.dataLength = 600

RECURSIVE ChunkTagsFrom(_, _)
\* the tags of the RIFF chunk sequence of buf from offset o on: each chunk
\* is an 8-byte header and its data, padded to an even size
ChunkTagsFrom(buf, o) ==
  IF o + 8 > buf.length THEN {}
  ELSE LET size == GetUint32LE(buf, o + 4)
       IN {ReadTag(buf, o)} \cup ChunkTagsFrom(buf, o + 8 + size + (size % 2))

FormatErrors ==
  {"Invalid WAV: file too small", "Invalid WAV: RIFF header not found",
   "Invalid WAV: WAVE format not found", "Invalid WAV: error parsing header",
   "Invalid WAV: fmt chunk not found", "Invalid WAV: data chunk not found"}

\* what the claim takes for a buffer that is no WAV file
NotWav(buf) ==
  \/ buf.length < 44
  \/ ReadTag(buf, 0) # <<82, 73, 70, 70>>
  \/ ReadTag(buf, 8) # <<87, 65, 86, 69>>
  \/ <<102, 109, 116, 32>> \notin ChunkTagsFrom(buf, 12)
  \/ <<100, 97, 116, 97>> \notin ChunkTagsFrom(buf, 12)

\* C15: parseWavHeader fails with a format error for every buffer that is
\* shorter than 44 bytes, lacks 'RIFF' at bytes 0-3 or 'WAVE' at bytes
\* 8-11, or has no 'fmt ' chunk or no 'data' chunk in the chunk sequence
\* that starts at byte 12.
C15_RejectsNonWav ==
  (wavHeader # None /\ NotWav(wavBuffer)) =>
     /\ wavHeader[1].threw # None
     /\ wavHeader[1].threw[1] \in FormatErrors

\* a file of 44 bytes or more with both tags and a fmt chunk but no data
\* chunk was rejected for the missing data chunk
C15_Witness ==
  /\ wavHeader # None
  /\ wavBuffer.length >= 44
  /\ <<102, 109, 116, 32>> \in ChunkTagsFrom(wavBuffer, 12)
  /\ wavHeader[1].threw = Some("Invalid WAV: data chunk not found")

\* C16: on success dataOffset is above 0 and dataOffset + dataLength does
\* not pass the end of the buffer.
C16_DataInsideBuffer ==
  Parsed =>
    /\ wavHeader[1].wav.dataOffset > 0
    /\ wavHeader[1].wav.dataOffset + wavHeader[1].wav.dataLength
         <= wavBuffer.length

\* a buffer was converted
Converted == wavOutput # None /\ wavOutput[1].threw = None

\* the descriptor of the buffer being converted
Header == parseWavHeader(wavBuffer).wav

\* the number of whole input samples of the data chunk
InputSampleCount == Header.dataLength \div ((Header.bitsPerSample \div 8) * Header.channels)

\* 2^(wavTuning / 12) as up / down
TuningUp == IF wavTuning > 0 THEN 2 ^ (wavTuning \div 12) ELSE 1

TuningDown == IF wavTuning < 0 THEN 2 ^ ((-wavTuning) \div 12) ELSE 1

\* floor(inputSampleCount * targetRate / sourceRate)
ResampledCount ==
  (InputSampleCount * 26040 * TuningUp) \div (Header.sampleRate * TuningDown)

\* the input lasts longer than 2.5 seconds (65100 samples) at the target
\* rate: inputSampleCount * targetRate / sourceRate > 65100, both sides
\* divided by 20
LongerThanMachine ==
  InputSampleCount * 1302 * TuningUp > 3255 * Header.sampleRate * TuningDown

OutputWord(i) == GetUint16LE(wavOutput[1].output, 2 * i)

\* C18: each of the first numOutputSamples little-endian words of the
\* payload is in 0..4095, for every valid input and tuning.
C18_TwelveBitWords ==
  Converted =>
    \A i \in 0..(wavOutput[1].numOutputSamples - 1) : OutputWord(i) \in 0..4095

\* the numerator of the source sample that output sample i is taken from
SourceSample(i) ==
  wavGetSample(Min(inputIndexOf(i, Header, wavTuning), InputSampleCount - 1),
               wavBuffer, Header)

\* the numerator of the peak of the input
InputPeak ==
  SetMax({Abs(wavGetSample(i, wavBuffer, Header)) : i \in 0..(InputSampleCount - 1)})

\* a 24-bit stereo waveform was converted
C18_Witness ==
  /\ Converted
  /\ Header.bitsPerSample = 24
  /\ Header.channels = 2
  /\ InputPeak > 0
  /\ OutputWord(1) = 4095

\* |(w - 2048) / 2048 - n / peak| <= 1 / 4096, multiplied by 4096 * peak
\* after n / peak was reduced
WithinQuantum(w, n, peak) ==
  LET g == GCD(Abs(n), peak)
  IN Abs(2 * (peak \div g) * (w - 2048) - 4096 * (n \div g)) <= peak \div g

\* C19: for an input with a non-zero peak every stored word w, unpacked as
\* (w - 2048) / 2048, differs from its source sample relative to the peak
\* by at most 1/4096.
C19_WaveformPreserved ==
  (Converted /\ InputPeak > 0) =>
    \A i \in 0..(wavOutput[1].numOutputSamples - 1) :
      WithinQuantum(OutputWord(i), SourceSample(i), InputPeak)

\* C20: the payload is 2 * numOutputSamples bytes rounded up to a multiple
\* of 256; every word after the first numOutputSamples is 0x8000; an
\* all-zero input converted at tuning 0 has every sample word 2048.
C20_PayloadShape ==
  Converted =>
    LET n == wavOutput[1].numOutputSamples
        len == wavOutput[1].output.length
    IN /\ len % 256 = 0
       /\ len >= 2 * n
       /\ len < 2 * n + 256
       /\ \A i \in n..((len \div 2) - 1) : OutputWord(i) = 32768
       /\ (InputPeak = 0 /\ wavTuning = 0) =>
            \A i \in 0..(n - 1) : OutputWord(i) = 2048

\* a silent 16-bit stereo file of 100 samples was converted at tuning 0
\* into 59 words of 2048 followed by 69 end markers
C20_Witness ==
  /\ Converted
  /\ wavTuning = 0
  /\ InputPeak = 0
  /\ InputSampleCount = 100
  /\ Header.sampleRate = 44100
  /\ wavOutput[1].numOutputSamples = 59
  /\ wavOutput[1].output.length = 256
  /\ OutputWord(58) = 2048
  /\ OutputWord(59) = 32768

(***************************************************************************)
(* The SND encoder convertToSnd (lib/audioConverter.ts).  Its input is     *)
(* the decoded AudioBuffer [numberOfChannels, sampleRate, channelData] and *)
(* the file's name; a channel is a sequence of samples, each the numerator *)
(* of a fraction over the buffer's scale (full scale is scale / scale),    *)
(* which keeps the stereo mix and the scaling to 16 bits exact.  A typed   *)
(* array's bytes are in the byte order of the host.                        *)
(***************************************************************************)
SND_HEADER_SIZE == 192

\* DataView.getUint32(off, false)
GetUint32BE(b, i) ==
  16777216 * GetUint8(b, i) + 65536 * GetUint8(b, i + 1)
    + 256 * GetUint8(b, i + 2) + GetUint8(b, i + 3)

\* monoData: the average of the first two channels of a stereo buffer, the
\* first channel otherwise, as numerators over the returned denominator
monoDataOf(audio) ==
  IF audio.numberOfChannels = 2
  THEN [den |-> 2 * audio.scale,
        data |-> [i \in 1..Len(audio.channelData[1]) |->
                    audio.channelData[1][i] + audio.channelData[2][i]]]
  ELSE [den |-> audio.scale, data |-> audio.channelData[1]]

\* the number truncated towards zero
Trunc(num, den) == IF num < 0 THEN -((-num) \div den) ELSE num \div den

\* s = Math.max(-1, Math.min(1, x)); pcmData[i] = s < 0 ? s * 0x8000 :
\* s * 0x7FFF, stored in an Int16Array (truncated to an integer)
pcmOf(num, den) ==
  LET s == Max(-den, Min(den, num))
  IN IF s < 0 THEN Trunc(s * 32768, den) ELSE Trunc(s * 32767, den)

\* the two bytes of a 16-bit value in the memory of the host
Int16Bytes(v, littleEndian) ==
  LET u == v % 65536
  IN IF littleEndian THEN <<u % 256, u \div 256>> ELSE <<u \div 256, u % 256>>

\* the bytes of the buffer of an Int16Array
Int16ArrayBuffer(pcm, littleEndian) ==
  BytesOf([k \in 1..(2 * Len(pcm)) |->
             Int16Bytes(pcm[(k + 1) \div 2], littleEndian)[2 - (k % 2)]])

CharDot == 46

CharSlash == 47

CharSpace == 32

\* name.replace(/\.[^/.]+$/, ''): the name without its last dot and what
\* follows it, when at least one character follows and none is a slash
stripExtension(name) ==
  LET dots == {i \in 1..(Len(name) - 1) :
                 /\ name[i] = CharDot
                 /\ \A j \in (i + 1)..Len(name) : name[j] \notin {CharDot, CharSlash}}
  IN IF dots = {} THEN name
     ELSE SubSeq(name, 1, (CHOOSE i \in dots : TRUE) - 1)

\* .slice(0, 12).padEnd(12, ' ')
sndFilename(name) ==
  [i \in 1..12 |->
     IF i <= Len(stripExtension(name)) THEN stripExtension(name)[i] ELSE CharSpace]
\* a zeroed buffer of the given length after the DataView writes
\* <<offset, bytes>> of a sequence, all inside the buffer, in order: each
\* byte has the value of the last write that covers it
ApplyWrites(length, writes) ==
  LET covering(o) == {k \in 1..Len(writes) :
                        /\ writes[k][1] <= o
                        /\ o < writes[k][1] + Len(writes[k][2])}
      byteAt(o) == IF covering(o) = {} THEN 0
                   ELSE LET k == SetMax(covering(o))
                        IN writes[k][2][o - writes[k][1] + 1] % 256
  IN [length |-> length,
      nz |-> [o \in {k \in 0..(length - 1) : byteAt(k) # 0} |-> byteAt(o)]]

\* big-endian bytes of a 16-bit and of a 32-bit value
BE16(v) == <<(v \div 256) % 256, v % 256>>

BE32(v) ==
  <<(v \div 16777216) % 256, (v \div 65536) % 256, (v \div 256) % 256, v % 256>>

\* the seven 12-byte loop records, all zero
sndLoopWrites ==
  [i \in 1..28 |->
     LET loop == (i - 1) \div 4
         offset == 38 + loop * 12
         field == (i - 1) % 4
     IN IF field = 0 THEN <<offset, BE32(0)>>
        ELSE IF field = 1 THEN <<offset + 4, BE16(0)>>
        ELSE IF field = 2 THEN <<offset + 6, BE32(0)>>
        ELSE <<offset + 10, BE16(0)>>]

\* the 192-byte header: every write of lines 136-197, in order
sndHeader(name, sampleRate, numWords) ==
  ApplyWrites(SND_HEADER_SIZE,
    <<<<0, <<3>>>>, <<1, <<IF sampleRate = 44100 THEN 1 ELSE 0>>>>, <<2, <<60>>>>,
      <<3, [i \in 1..12 |-> sndFilename(name)[i] % 256]>>,
      <<15, <<128>>>>, <<16, <<0>>>>, <<17, <<0>>>>, <<18, <<0>>>>, <<19, <<2>>>>,
      <<20, <<0>>>>, <<21, <<0>>>>,
      <<22, <<0>>>>, <<23, <<8>>>>, <<24, <<2>>>>, <<25, <<0>>>>,
      <<26, BE32(numWords)>>, <<30, BE32(0)>>, <<34, BE32(numWords)>>>>
    \o sndLoopWrites
    \o <<<<182, <<0>>>>, <<183, <<0>>>>, <<184, <<255>>>>, <<185, <<255>>>>,
         <<186, BE16(sampleRate)>>, <<188, <<0>>>>,
         <<189, <<0>>>>, <<190, <<0>>>>, <<191, <<0>>>>>>)

\* convertToSnd after decodeAudioData: the Blob [header, pcmData.buffer]
convertToSnd(name, audio, littleEndian) ==
  LET mono == monoDataOf(audio)
      pcmData == [i \in 1..Len(mono.data) |-> pcmOf(mono.data[i], mono.den)]
  IN Concat(sndHeader(name, audio.sampleRate, Len(pcmData)),
            Int16ArrayBuffer(pcmData, littleEndian))
(***************************************************************************)
(* The SND decoder loadSndFile (components/SndPlayer.tsx).  The outcome is *)
(* [error, numSamples, sampleRate, buffer]: the error the catch logged (or *)
(* None), the two header values when they were read, and the AudioBuffer   *)
(* stored in bufferRef (None when none was stored).  An AudioBuffer is     *)
(* [length, sampleRate, data], data mapping the indices of its non-zero    *)
(* samples to their numerators over 32768.                                 *)
(***************************************************************************)
\* the Int16Array over the bytes of buf from off on, read in host order
Int16At(buf, off, i, littleEndian) ==
  LET a == GetUint8(buf, off + 2 * i)
      b == GetUint8(buf, off + 2 * i + 1)
      u == IF littleEndian THEN a + 256 * b ELSE 256 * a + b
  IN IF u >= 32768 THEN u - 65536 ELSE u

SndFailure(error) ==
  [error |-> Some(error), numSamples |-> None, sampleRate |-> None, buffer |-> None]

loadSndFile(buf, littleEndian) ==
  IF buf.length < 3 THEN SndFailure("RangeError")
  ELSE IF buf.length < 30 THEN SndFailure("RangeError")
  ELSE
    LET sampleRateFlag == GetUint8(buf, 1)
        numSamples == GetUint32LE(buf, 26)
        sampleRate == IF sampleRateFlag = 1 THEN 44100 ELSE 22050
        pcmBytes == IF buf.length > SND_HEADER_SIZE
                    THEN buf.length - SND_HEADER_SIZE ELSE 0
        pcmLength == pcmBytes \div 2
        copied == Min(pcmLength, numSamples)
        float(i) == Max(-32768, Min(32768,
                      Int16At(buf, SND_HEADER_SIZE, i, littleEndian)))
        read == [error |-> None, numSamples |-> Some(numSamples),
                 sampleRate |-> Some(sampleRate), buffer |-> None]
    IN IF pcmBytes % 2 # 0 THEN [read EXCEPT !.error = Some("RangeError")]
       ELSE IF numSamples = 0 THEN [read EXCEPT !.error = Some("NotSupportedError")]
       ELSE [read EXCEPT !.buffer =
               Some([length |-> numSamples, sampleRate |-> sampleRate,
                     data |-> [i \in {k \in 0..(copied - 1) : float(k) # 0}
                                 |-> float(i)]])]
(***************************************************************************)
(* SND files encoded and decoded.  sndInput is [littleEndian, file]: the   *)
(* byte order of the host and the file given to the encoder, [name,        *)
(* audio], or None when the decoder is given a blob from elsewhere.        *)
(***************************************************************************)
NameKickWav == <<107, 105, 99, 107, 46, 119, 97, 118>>

\* "my.sample.name.long.aiff"
NameDotted ==
  <<109, 121, 46, 115, 97, 109, 112, 108, 101, 46, 110, 97, 109, 101, 46,
    108, 111, 110, 103, 46, 97, 105, 102, 102>>

\* "a/b.c/d"
NameSlashed == <<97, 47, 98, 46, 99, 47, 100>>

\* channels of 0, 1, 2, 3 and 256 samples, in quarters of full scale,
\* some beyond full scale
ChannelInputs ==
  {<<>>, <<1>>, <<-4, 4>>, <<6, -6, -1>>, [i \in 1..256 |-> (i % 9) - 4]}

AudioInputs ==
  {[numberOfChannels |-> 1, sampleRate |-> r, scale |-> 4, channelData |-> <<d>>] :
     r \in {22050, 44100, 48000}, d \in ChannelInputs}
  \cup
  {[numberOfChannels |-> 2, sampleRate |-> r, scale |-> 4,
    channelData |-> <<d, [i \in 1..Len(d) |-> 3 - d[i]]>>] :
     r \in {22050, 44100, 48000}, d \in ChannelInputs}

\* "kick.wav" of two samples at 44100 Hz, encoded on a little-endian host
EncodedKick ==
  convertToSnd(NameKickWav,
               [numberOfChannels |-> 1, sampleRate |-> 44100, scale |-> 4,
                channelData |-> <<<<-4, 4>>>>], TRUE)

\* blobs shorter than the header: zeros, the first bytes of an encoded
\* file, and zeros with a sample count of 100 at byte 26
ShortBlobs ==
  {ZeroBytes(n) : n \in 0..(SND_HEADER_SIZE - 1)}
  \cup
  {Slice(EncodedKick, 0, n) : n \in 0..(SND_HEADER_SIZE - 1)}
  \cup
  {[length |-> n, nz |-> (26 :> 100)] : n \in 27..(SND_HEADER_SIZE - 1)}

InitSnd ==
  /\ \/ /\ sndInput \in
             {[littleEndian |-> e, file |-> Some([name |-> n, audio |-> a])] :
                e \in BOOLEAN,
                n \in {NameKickWav, NameDotted, NameSlashed},
                a \in AudioInputs}
        /\ sndFile = None
     \/ /\ sndInput \in {[littleEndian |-> e, file |-> None] : e \in BOOLEAN}
        /\ sndFile \in {Some(b) : b \in ShortBlobs}
  /\ sndDecoded = None
  /\ requests = <<>>
  /\ scanState = None
  /\ playerState = None
  /\ uiState = None
  /\ padAssignments = <<>>
  /\ ret = NoCall
  /\ sample = NoSample
  /\ fileData = None
  /\ parsed = None
  /\ wavBuffer = ZeroBytes(0)
  /\ wavTuning = 0
  /\ wavHeader = None
  /\ wavValidation = None
  /\ wavOutput = None

otherThanSnd ==
  <<builderVars, codecVars, wavVars, requests, scanState, playerState, uiState>>

EncodeSnd ==
  /\ sndInput.file # None
  /\ sndFile = None
  /\ sndFile' = Some(convertToSnd(sndInput.file[1].name, sndInput.file[1].audio,
                                  sndInput.littleEndian))
  /\ UNCHANGED <<sndInput, sndDecoded, otherThanSnd>>

DecodeSnd ==
  /\ sndFile # None
  /\ sndDecoded = None
  /\ sndDecoded' = Some(loadSndFile(sndFile[1], sndInput.littleEndian))
  /\ UNCHANGED <<sndInput, sndFile, otherThanSnd>>

NextSnd ==
  \/ EncodeSnd
  \/ DecodeSnd

SpecSnd == InitSnd /\ [][NextSnd]_vars

\* the PCM values the encoder writes for its input
EncodedPcm ==
  LET mono == monoDataOf(sndInput.file[1].audio)
  IN [i \in 1..Len(mono.data) |-> pcmOf(mono.data[i], mono.den)]

\* C21: for a file the encoder produced, the decoder reads back a sample
\* word count equal to the number of PCM samples the encoder wrote and a
\* sample rate equal to the rate the encoder recorded.
C21_SndRoundTrip ==
  (sndInput.file # None /\ sndDecoded # None) =>
    /\ sndDecoded[1].numSamples = Some((sndFile[1].length - 192) \div 2)
    /\ sndDecoded[1].sampleRate = Some(sndInput.file[1].audio.sampleRate)

\* C22: decoding a buffer shorter than the 192-byte header fails with an
\* error and stores no audio buffer, for every length from 0 to 191.
C22_ShortSndRejected ==
  (sndDecoded # None /\ sndFile[1].length < 192) =>
    /\ sndDecoded[1].error # None
    /\ sndDecoded[1].buffer = None

\* C23: in the encoded file the 192-byte header is followed by one 16-bit
\* signed value per PCM sample, most significant byte first, unmodified.
C23_PcmBigEndian ==
  (sndInput.file # None /\ sndFile # None) =>
    /\ sndFile[1].length = 192 + 2 * Len(EncodedPcm)
    /\ \A i \in 1..Len(EncodedPcm) :
         256 * GetUint8(sndFile[1], 190 + 2 * i) + GetUint8(sndFile[1], 191 + 2 * i)
           = EncodedPcm[i] % 65536

(***************************************************************************)
(* The upload route.  Its POST, DELETE and GET handlers all use the one    *)
(* diskBuilder the library module exports; a handler runs without          *)
(* interruption from one await to the next, and other requests' handlers   *)
(* run in between.                                                         *)
(***************************************************************************)
MaxRequests == 2

\* the client a request comes from: two clients take turns; the handlers
\* never look at who is calling
SessionOf(r) == IF r % 2 = 1 THEN "s1" ELSE "s2"

NoRequest ==
  [session |-> "", kind |-> "none", stage |-> "none", form |-> None,
   response |-> None]

\* new NextResponse(body, {status}) / NextResponse.json(body)
Response(status, kind, value) ==
  Some([status |-> status, kind |-> kind, value |-> value])

\* the response of a handler's catch block
ErrorResponse(threw) == Response(500, "text", threw[1])

\* !bank of a form field: null or the empty string
NoBank(bank) == bank = None \/ bank[1] = ""

\* !padNumber: null (field absent) or 0
NoPadNumber(padNumber) == padNumber = None \/ padNumber[1] = 0

\* POST from the return of req.formData() to the next await or return:
\* the response, or None when the handler goes on to file.arrayBuffer()
postAfterFormData(m, form) ==
  IF form.createDisk /\ form.file = None
  THEN LET disk == createDiskImage(m)
       IN IF disk.threw # None THEN ErrorResponse(disk.threw)
          ELSE Response(200, "image", disk.image)
  ELSE IF form.file = None \/ NoBank(form.bank) \/ NoPadNumber(form.padNumber)
  THEN Response(400, "text", "Missing required fields")
  ELSE None

\* the assignment POST hands to diskBuilder.addSample
routeAssignment(form, sp1200Data) ==
  Assignment(form.bank[1], form.padNumber[1], stripExtension(form.file[1].name),
             sp1200Data,
             Metadata(Some(form.tuning), Some(255), Some(FALSE), Some(0),
                      Some(0), Some(0), Some(0)))

\* a handler that builds the image before it adds the sample
postAfterArrayBuffer_BuildFirst(m, form) ==
  LET conv == convertWavToSP1200Format(form.file[1].bytes, form.tuning)
  IN IF conv.threw # None THEN [map |-> m, response |-> ErrorResponse(conv.threw)]
     ELSE LET added == addSample(m, routeAssignment(form, conv.output))
              disk == createDiskImage(m)
          IN IF added.threw # None
             THEN [map |-> m, response |-> ErrorResponse(added.threw)]
             ELSE IF ~form.createDisk
             THEN [map |-> added.map, response |-> Response(200, "sample", conv.output)]
             ELSE IF disk.threw # None
             THEN [map |-> added.map, response |-> ErrorResponse(disk.threw)]
             ELSE [map |-> added.map, response |-> Response(200, "image", disk.image)]

\* POST from the return of file.arrayBuffer() to its response: the
\* conversion, addSample and createDiskImage with no await in between;
\* [map, response]
postAfterArrayBuffer(m, form) ==
  LET conv == convertWavToSP1200Format(form.file[1].bytes, form.tuning)
  IN IF conv.threw # None THEN [map |-> m, response |-> ErrorResponse(conv.threw)]
     ELSE LET added == addSample(m, routeAssignment(form, conv.output))
              disk == createDiskImage(added.map)
          IN IF added.threw # None
             THEN [map |-> m, response |-> ErrorResponse(added.threw)]
             ELSE IF ~form.createDisk
             THEN [map |-> added.map, response |-> Response(200, "sample", conv.output)]
             ELSE IF disk.threw # None
             THEN [map |-> added.map, response |-> ErrorResponse(disk.threw)]
             ELSE [map |-> added.map, response |-> Response(200, "image", disk.image)]

\* DELETE from the return of req.json() to its response; [map, response]
deleteAfterJson(m, body) ==
  IF NoBank(body.bank) \/ NoPadNumber(body.padNumber)
  THEN [map |-> m, response |-> Response(400, "text", "Missing bank or pad number")]
  ELSE [map |-> removeSample(m, body.bank[1], body.padNumber[1]),
        response |-> Response(200, "text", "Sample removed")]

\* GET: the list of what the builder holds, without the sample data
getHandler(m) ==
  Response(200, "json",
           [i \in 1..Len(m) |->
              [name |-> getPadAssignments(m)[i].name,
               bank |-> getPadAssignments(m)[i].bank,
               padNumber |-> getPadAssignments(m)[i].padNumber,
               metadata |-> getPadAssignments(m)[i].metadata]])

\* uploads: 100 samples of 16 bits at 44100 Hz, 100 silent samples of 8
\* bits at 8000 Hz, and a file that is no WAV file
UploadKick == [name |-> NameKickWav, bytes |-> RiffFile(<<Fmt16, Data200>>)]

UploadSilence ==
  [name |-> NameDotted,
   bytes |-> RiffFile(<<FmtChunk(1, 1, 8000, 8),
                        DataChunk(Repeated(<<128>>, MinDataBytes(1, 8)))>>)]

UploadBroken == [name |-> NameKickWav, bytes |-> ShortFile]

Form(file, bank, padNumber, createDisk) ==
  [file |-> file, bank |-> bank, padNumber |-> padNumber, tuning |-> 0,
   createDisk |-> createDisk]

PostForms ==
  {Form(Some(UploadKick), Some("A"), Some(1), TRUE),
   Form(Some(UploadSilence), Some("A"), Some(1), TRUE),
   Form(Some(UploadSilence), Some("B"), Some(2), FALSE),
   Form(None, None, None, TRUE),
   Form(Some(UploadKick), Some("A"), None, FALSE),
   Form(Some(UploadBroken), Some("A"), Some(1), TRUE)}

DeleteBodies ==
  {[bank |-> Some("A"), padNumber |-> Some(1)],
   [bank |-> Some("B"), padNumber |-> Some(2)],
   [bank |-> None, padNumber |-> Some(1)]}

InitRoute ==
  /\ requests = [r \in 1..MaxRequests |-> NoRequest]
  /\ padAssignments = <<>>
  /\ ret = NoCall
  /\ sample = NoSample
  /\ fileData = None
  /\ parsed = None
  /\ wavBuffer = ZeroBytes(0)
  /\ wavTuning = 0
  /\ wavHeader = None
  /\ wavValidation = None
  /\ wavOutput = None
  /\ sndInput = None
  /\ sndFile = None
  /\ sndDecoded = None
  /\ scanState = None
  /\ playerState = None
  /\ uiState = None

otherThanRoute ==
  <<ret, sample, codecVars, wavVars, sndVars, scanState, playerState, uiState>>

\* a request arrives: its handler runs up to its first await
ArrivePost(r, form) ==
  /\ requests[r].kind = "none"
  /\ requests' = [requests EXCEPT ![r] =
                    [session |-> SessionOf(r), kind |-> "POST", stage |-> "formData",
                     form |-> Some(form), response |-> None]]
  /\ UNCHANGED <<padAssignments, otherThanRoute>>

ArriveDelete(r, body) ==
  /\ requests[r].kind = "none"
  /\ requests' = [requests EXCEPT ![r] =
                    [session |-> SessionOf(r), kind |-> "DELETE", stage |-> "json",
                     form |-> Some(body), response |-> None]]
  /\ UNCHANGED <<padAssignments, otherThanRoute>>

\* GET has no await: the whole handler runs when the request arrives
Get(r) ==
  /\ requests[r].kind = "none"
  /\ requests' = [requests EXCEPT ![r] =
                    [session |-> SessionOf(r), kind |-> "GET", stage |-> "done",
                     form |-> None, response |-> getHandler(padAssignments)]]
  /\ UNCHANGED <<padAssignments, otherThanRoute>>

PostFormData(r) ==
  /\ requests[r].stage = "formData"
  /\ LET response == postAfterFormData(padAssignments, requests[r].form[1])
     IN requests' = [requests EXCEPT ![r].response = response,
                                     ![r].stage = IF response = None
                                                  THEN "arrayBuffer" ELSE "done"]
  /\ UNCHANGED <<padAssignments, otherThanRoute>>

PostArrayBuffer(r) ==
  /\ requests[r].stage = "arrayBuffer"
  /\ LET result == postAfterArrayBuffer(padAssignments, requests[r].form[1])
     IN /\ padAssignments' = result.map
        /\ requests' = [requests EXCEPT ![r].response = result.response,
                                        ![r].stage = "done"]
  /\ UNCHANGED otherThanRoute

DeleteJson(r) ==
  /\ requests[r].stage = "json"
  /\ LET result == deleteAfterJson(padAssignments, requests[r].form[1])
     IN /\ padAssignments' = result.map
        /\ requests' = [requests EXCEPT ![r].response = result.response,
                                        ![r].stage = "done"]
  /\ UNCHANGED otherThanRoute

NextRoute ==
  \E r \in 1..MaxRequests :
    \/ \E form \in PostForms : ArrivePost(r, form)
    \/ \E body \in DeleteBodies : ArriveDelete(r, body)
    \/ Get(r)
    \/ PostFormData(r)
    \/ PostArrayBuffer(r)
    \/ DeleteJson(r)

SpecRoute == InitRoute /\ [][NextRoute]_vars

\* the requests that have been answered
Answered == {r \in 1..MaxRequests : requests[r].response # None}

\* the pads an answer shows: the occupied table entries of an image, the
\* entries of a list
PadsOf(bank, padNumber, answer) ==
  IF answer.kind = "image"
  THEN GetUint32LE(answer.value, EntryOffset(bank, padNumber) + 12) > 0
  ELSE IF answer.kind = "json"
  THEN \E i \in 1..Len(answer.value) :
         answer.value[i].bank = bank /\ answer.value[i].padNumber = padNumber
  ELSE FALSE

\* request r is an upload of its session to the pad
UploadTo(r, bank, padNumber) ==
  /\ requests[r].kind = "POST"
  /\ requests[r].form[1].file # None
  /\ requests[r].form[1].bank = Some(bank)
  /\ requests[r].form[1].padNumber = Some(padNumber)

\* C24: sessions cannot corrupt each other's pad tables: every pad an image
\* or a list returned to a session shows was uploaded by a request of that
\* same session.
C24_SessionsIsolated ==
  \A r \in Answered :
    \A bank \in {"A", "B"}, padNumber \in 1..2 :
      PadsOf(bank, padNumber, requests[r].response[1]) =>
        \E u \in 1..MaxRequests :
          /\ requests[u].session = requests[r].session
          /\ UploadTo(u, bank, padNumber)

\* the uploads answered with a disk image
ImageUploads ==
  {r \in Answered :
     /\ requests[r].kind = "POST"
     /\ requests[r].form[1].file # None
     /\ requests[r].response[1].kind = "image"}

\* what the conversion makes of the file of request r
UploadedData(r) ==
  convertWavToSP1200Format(requests[r].form[1].file[1].bytes,
                           requests[r].form[1].tuning).output

\* C25: the image returned to an upload with createDisk holds the sample
\* just uploaded at its pad: the pad's table entry carries its word count
\* and points to its data, whatever other requests did in between.
C25_ImageHoldsUpload ==
  \A r \in ImageUploads :
    LET image == requests[r].response[1].value
        form == requests[r].form[1]
        e == EntryOffset(form.bank[1], form.padNumber[1])
        data == UploadedData(r)
    IN /\ GetUint32LE(image, e + 12) = data.length \div 2
       /\ Slice(image, GetUint32LE(image, e + 16), data.length) = data

\* an upload with createDisk is answered with its image while another
\* request, which arrived before that answer, has changed or is about to
\* change the same builder
C25_Witness ==
  \E r \in ImageUploads, o \in 1..MaxRequests :
    /\ o # r
    /\ requests[o].kind \in {"POST", "DELETE"}
    /\ requests[o].response # None
    /\ requests[o].response[1].status = 200
    /\ requests[o].form[1].bank = requests[r].form[1].bank
    /\ requests[o].form[1].padNumber = requests[r].form[1].padNumber

(***************************************************************************)
(* The chunk scan of parseWavHeader, one loop iteration at a time.         *)
(* scanState holds the locals of the loop while it runs; wavHeader holds   *)
(* the outcome once the function has returned or thrown.                   *)
(***************************************************************************)
TagList == <<76, 73, 83, 84>>

\* an unknown chunk with no data
JunkEmpty == Chunk(TagJunk, 0, ZeroBytes(0))

\* an unknown chunk whose data reads like the header of a data chunk
JunkData == Chunk(TagList, 8, BytesOf(<<100, 97, 116, 97, 4, 0, 0, 0>>))

UnknownChunks == {JunkEmpty, JunkOdd, Junk12, JunkData}

\* a format chunk with the data chunk that goes with it: an odd size with
\* its padding byte, a small even size, a long odd size
FmtAndData ==
  {<<FmtChunk(1, 2, 8000, 8), Chunk(TagData, 1, BytesOf(<<7, 0>>))>>,
   <<Fmt16, DataChunk(Repeated(Pattern16, 6))>>,
   <<FmtChunk(1, 1, 22050, 24), Chunk(TagData, 201, Repeated(Pattern24, 202))>>}

\* s with x put after its first i elements
InsertAt(s, i, x) == SubSeq(s, 1, i) \o <<x>> \o SubSeq(s, i + 1, Len(s))

\* up to two unknown chunks in a row
UnknownRuns ==
  {<<>>} \cup {<<a>> : a \in UnknownChunks}
         \cup {<<a, b>> : a \in UnknownChunks, b \in UnknownChunks}

\* RIFF/WAVE files with one fmt chunk and one data chunk at every place
\* among the unknown chunks
ChunkFiles ==
  UNION {{RiffFile(InsertAt(InsertAt(run, i, fd[1]), j, fd[2])) :
            fd \in FmtAndData, i \in 0..Len(run), j \in 0..(Len(run) + 1)} :
         run \in UnknownRuns}

\* buffers that are no chunk sequence: zero bytes (chunks of size 0),
\* a chunk that declares far more than the buffer holds, bytes that are
\* no chunk headers, a second fmt chunk cut off by the end of the buffer
GarbageFiles ==
  {RiffFile(<<ZeroBytes(48)>>),
   RiffFile(<<Fmt16, Chunk(TagJunk, 2130706431, ZeroBytes(20))>>),
   RiffFile(<<Chunk(TagData, 2130706431, ZeroBytes(40))>>),
   RiffFile(<<Repeated(<<1, 2, 3, 4, 5, 0, 0, 0, 9>>, 70)>>),
   RiffFile(<<Fmt16, Data200, Chunk(TagFmt, 16, ZeroBytes(4))>>)}

ScanFiles == ChunkFiles \cup GarbageFiles \cup LayoutFiles

InitScan ==
  /\ wavBuffer \in ScanFiles
  /\ wavTuning = 0
  /\ wavHeader = None
  /\ wavValidation = None
  /\ wavOutput = None
  /\ scanState = None
  /\ padAssignments = <<>>
  /\ ret = NoCall
  /\ sample = NoSample
  /\ fileData = None
  /\ parsed = None
  /\ sndInput = None
  /\ sndFile = None
  /\ sndDecoded = None
  /\ requests = <<>>
  /\ playerState = None
  /\ uiState = None

otherThanScan ==
  <<wavBuffer, wavTuning, wavValidation, wavOutput, builderVars, codecVars,
    sndVars, requests, playerState, uiState>>

\* the checks of the size and of the two form tags, then the locals
CheckHeader ==
  /\ wavHeader = None
  /\ scanState = None
  /\ IF HeaderError(wavBuffer) # None
     THEN /\ wavHeader' = Some([threw |-> HeaderError(wavBuffer)])
          /\ UNCHANGED scanState
     ELSE /\ scanState' = Some(ScanStart)
          /\ UNCHANGED wavHeader
  /\ UNCHANGED otherThanScan

\* one iteration of the while loop
StepScan ==
  /\ wavHeader = None
  /\ scanState # None
  /\ ScanContinues(wavBuffer, scanState[1])
  /\ scanState' = Some(ScanStep(wavBuffer, scanState[1]))
  /\ UNCHANGED <<wavHeader, otherThanScan>>

\* the loop has ended or thrown: the checks after it and the return
FinishScan ==
  /\ wavHeader = None
  /\ scanState # None
  /\ ~ScanContinues(wavBuffer, scanState[1])
  /\ wavHeader' = Some(ScanResult(scanState[1]))
  /\ UNCHANGED <<scanState, otherThanScan>>

NextScan == CheckHeader \/ StepScan \/ FinishScan

SpecScan == InitScan /\ [][NextScan]_vars

\* the function runs to its end once called
SpecScanFair == SpecScan /\ WF_vars(NextScan)

RECURSIVE ChunksFrom(_, _)
\* the RIFF chunks of buf from offset o on, as [tag, size, at]: a chunk is
\* an 8-byte header and size bytes of data, then a padding byte when size
\* is odd
ChunksFrom(buf, o) ==
  IF o + 8 > buf.length THEN <<>>
  ELSE LET size == GetUint32LE(buf, o + 4)
       IN <<[tag |-> ReadTag(buf, o), size |-> size, at |-> o]>>
            \o ChunksFrom(buf, o + 8 + size + (size % 2))

ChunksOf(buf) == ChunksFrom(buf, 12)

ChunksTagged(buf, tag) ==
  {i \in 1..Len(ChunksOf(buf)) : ChunksOf(buf)[i].tag = tag}

\* a RIFF/WAVE buffer whose chunks fill it to its end, with exactly one
\* fmt chunk, of 16 bytes or more, and exactly one data chunk, not empty
WellFormedWav(buf) ==
  /\ buf.length >= 12
  /\ ReadTag(buf, 0) = <<82, 73, 70, 70>>
  /\ ReadTag(buf, 8) = <<87, 65, 86, 69>>
  /\ Len(ChunksOf(buf)) > 0
  /\ LET last == ChunksOf(buf)[Len(ChunksOf(buf))]
     IN last.at + 8 + last.size + (last.size % 2) = buf.length
  /\ Cardinality(ChunksTagged(buf, <<102, 109, 116, 32>>)) = 1
  /\ Cardinality(ChunksTagged(buf, <<100, 97, 116, 97>>)) = 1
  /\ \A i \in ChunksTagged(buf, <<102, 109, 116, 32>>) : ChunksOf(buf)[i].size >= 16
  /\ \A i \in ChunksTagged(buf, <<100, 97, 116, 97>>) : ChunksOf(buf)[i].size >= 1

TheChunk(buf, tag) == ChunksOf(buf)[CHOOSE i \in ChunksTagged(buf, tag) : TRUE]

\* C26: for a RIFF/WAVE buffer with exactly one fmt chunk and exactly one
\* non-empty data chunk among unknown chunks of odd or even size,
\* parseWavHeader returns the fields of the fmt chunk, dataOffset = the
\* offset of the first data byte and dataLength = the declared data size,
\* whatever the order of the chunks.
C26_ChunkOrder ==
  (wavHeader # None /\ WellFormedWav(wavBuffer)) =>
    LET fmt == TheChunk(wavBuffer, <<102, 109, 116, 32>>)
        data == TheChunk(wavBuffer, <<100, 97, 116, 97>>)
    IN /\ wavHeader[1].threw = None
       /\ wavHeader[1].wav.audioFormat = GetUint16LE(wavBuffer, fmt.at + 8)
       /\ wavHeader[1].wav.channels = GetUint16LE(wavBuffer, fmt.at + 10)
       /\ wavHeader[1].wav.sampleRate = GetUint32LE(wavBuffer, fmt.at + 12)
       /\ wavHeader[1].wav.bitsPerSample = GetUint16LE(wavBuffer, fmt.at + 22)
       /\ wavHeader[1].wav.dataOffset = data.at + 8
       /\ wavHeader[1].wav.dataLength = data.size

\* the data chunk comes first, the fmt chunk last, with an unknown chunk of
\* odd size and one that reads like a data header in between
C26_Witness ==
  /\ wavHeader # None
  /\ wavBuffer =
       RiffFile(<<Chunk(TagData, 201, Repeated(Pattern24, 202)), JunkOdd, JunkData,
                  FmtChunk(1, 1, 22050, 24)>>)
  /\ wavHeader[1].threw = None
  /\ wavHeader[1].wav.dataOffset = 20
  /\ wavHeader[1].wav.dataLength = 201
  /\ wavHeader[1].wav.sampleRate = 22050

\* C27: the chunk scan ends on every buffer: each iteration that does not
\* throw moves offset strictly forward, and the function ends with a
\* descriptor or with one of its format errors.
C27_ScanTerminates ==
  /\ [][(scanState # None /\ scanState' # None /\ wavHeader' = wavHeader) =>
          (scanState'[1].threw \/ scanState'[1].offset > scanState[1].offset)]_vars
  /\ <>(wavHeader # None)
  /\ [](wavHeader # None =>
          (wavHeader[1].threw # None => wavHeader[1].threw[1] \in FormatErrors))

\* a scan that went over chunks of size 0 and ended
C27_Witness ==
  /\ wavBuffer = RiffFile(<<ZeroBytes(48)>>)
  /\ wavHeader # None
  /\ scanState # None
  /\ scanState[1].offset = 52

(***************************************************************************)
(* SP1200Player.loadDiskImage.  The player is [samples, sampleInfo]:       *)
(* samples maps the keys of the loaded pads to their unpacked data,        *)
(* sampleInfo maps each of the 32 pad keys to [name, volume, hasSample].   *)
(* Unpacked data is [length, nz] over the 12-bit values v of the words;    *)
(* the float the player stores for v is (v - 2048) / 2048.  A volume is    *)
(* kept as its byte b; the player stores b / 255.                          *)
(***************************************************************************)
SP1200_MIN_DISK_SIZE == 4096

\* bound of the model: the number of pads of an image the player loads
MaxLoaded == 2

PlayerBanks == <<"A", "B", "C", "D">>

PadKeys == {getPadKey(PlayerBanks[b], pad) : b \in 1..4, pad \in 1..8}

\* initializeEmptyPads: every pad key is set to an entry without a sample
initializeEmptyPads(sampleInfo) ==
  [k \in PadKeys |-> [name |-> <<>>, volume |-> SP1200_VOLUME_MAX, hasSample |-> FALSE]]

\* a clear that keeps what was loaded before
samplesClear_Keep(samples) == samples

\* this.samples.clear()
samplesClear(samples) == [k \in {} |-> 0]

\* the player after its constructor
NewPlayer == [samples |-> [k \in {} |-> 0], sampleInfo |-> initializeEmptyPads(<<>>)]

\* "Sample " followed by the pad key
DefaultName(bank, pad) ==
  <<83, 97, 109, 112, 108, 101, 32>> \o <<bankOffset[bank] \div 8 + 65, 48 + pad>>

\* the fields loadDiskImage reads from the table entry of a pad
readPadEntry(image, bank, pad) ==
  LET entryOffset ==
        SP1200_PAD_TABLE_OFFSET + (getPadIndex(bank, pad) * SP1200_PAD_ENTRY_SIZE)
  IN [name |-> ReadName(image, entryOffset, 0),
      numWords |-> GetUint32LE(image, entryOffset + 12),
      sampleOffset |-> GetUint32LE(image, entryOffset + 16),
      volume |-> GetUint8(image, entryOffset + 25)]

\* the pad is neither skipped as empty nor as out of bounds
padLoads(image, entry) ==
  /\ ~(entry.numWords = 0 \/ entry.sampleOffset = 0)
  /\ ~(entry.sampleOffset + entry.numWords * 2 > image.length)

\* view.getUint16(sampleOffset + i * 2, true) & 0x0FFF for i < numWords
unpackSamples(image, sampleOffset, numWords) ==
  LET word(i) == GetUint16LE(image, sampleOffset + i * 2) % 4096
      touched == {(k - sampleOffset) \div 2 :
                    k \in {j \in DOMAIN image.nz :
                             j >= sampleOffset /\ j < sampleOffset + numWords * 2}}
  IN [length |-> numWords,
      nz |-> [i \in {t \in touched : word(t) # 0} |-> word(i)]]

\* the outcome of loadDiskImage(buffer) on a player: [threw, player]
loadDiskImage(player, image) ==
  IF image.length < SP1200_MIN_DISK_SIZE
  THEN [threw |-> Some("Invalid disk image: file too small"), player |-> player]
  ELSE IF GetUint16LE(image, 0) # SP1200_MAGIC
  THEN [threw |-> Some("Invalid disk image: wrong magic number"), player |-> player]
  ELSE
    LET entryOf(k) ==
          CHOOSE e \in {[bank |-> PlayerBanks[b], pad |-> pad,
                         entry |-> readPadEntry(image, PlayerBanks[b], pad)] :
                          b \in 1..4, pad \in 1..8} :
            getPadKey(e.bank, e.pad) = k
        loaded == {k \in PadKeys : padLoads(image, entryOf(k).entry)}
        cleared == samplesClear(player.samples)
        empty == initializeEmptyPads(player.sampleInfo)
    IN [threw |-> None,
        player |->
          [samples |->
             [k \in loaded \cup DOMAIN cleared |->
                IF k \in loaded
                THEN unpackSamples(image, entryOf(k).entry.sampleOffset,
                                   entryOf(k).entry.numWords)
                ELSE cleared[k]],
           sampleInfo |->
             [k \in PadKeys |->
                IF k \in loaded
                THEN [name |-> IF Trim(entryOf(k).entry.name) # <<>>
                               THEN Trim(entryOf(k).entry.name)
                               ELSE DefaultName(entryOf(k).bank, entryOf(k).pad),
                      volume |-> entryOf(k).entry.volume,
                      hasSample |-> TRUE]
                ELSE empty[k]]]]

InitPlayer ==
  /\ padAssignments = <<>>
  /\ ret = NoCall
  /\ playerState = Some(NewPlayer)
  /\ sample = NoSample
  /\ fileData = None
  /\ parsed = None
  /\ wavBuffer = ZeroBytes(0)
  /\ wavTuning = 0
  /\ wavHeader = None
  /\ wavValidation = None
  /\ wavOutput = None
  /\ sndInput = None
  /\ sndFile = None
  /\ sndDecoded = None
  /\ requests = <<>>
  /\ scanState = None
  /\ uiState = None

\* the player loads the image the builder has just returned
LoadDiskImage ==
  /\ ret.op = "createDiskImage"
  /\ ret.threw = None
  /\ playerState' = Some(loadDiskImage(playerState[1], ret.image).player)
  /\ UNCHANGED <<padAssignments, ret, codecVars, wavVars, sndVars, requests,
                 scanState, uiState>>

\* addSample while the builder holds few pads
AddSampleToLoad ==
  /\ AddSample
  /\ Len(padAssignments') <= MaxLoaded

NextPlayer ==
  \/ AddSampleToLoad
  \/ RemoveSample
  \/ Clear
  \/ CreateDiskImage
  \/ LoadDiskImage

SpecPlayer == InitPlayer /\ [][NextPlayer]_vars

\* the word count of what the builder holds for a pad key, 0 when it
\* holds nothing
HeldWords(k) ==
  IF MapHas(padAssignments, k) THEN MapGet(padAssignments, k)[1].data.length \div 2
  ELSE 0

\* the player shows what the builder holds
PlayerShows(player) ==
  \A k \in PadKeys :
    /\ player.sampleInfo[k].hasSample = (HeldWords(k) >= 1)
    /\ (k \in DOMAIN player.samples) = (HeldWords(k) >= 1)
    /\ k \in DOMAIN player.samples => player.samples[k].length = HeldWords(k)

\* C28: whenever the player loads the image built from the builder's state,
\* hasSample is true exactly for the pads that hold an assignment of at
\* least one word, each of them has as many unpacked samples as its word
\* count, and nothing of an earlier load is left.
C28_PlayerShowsImage ==
  [][(ret.op = "createDiskImage" /\ ret.threw = None /\ UNCHANGED ret
      /\ playerState' # playerState) => PlayerShows(playerState'[1])]_vars

\* the player has loaded an image of two pads, one of them without a
\* single word
C28_Witness ==
  /\ ret.op = "createDiskImage"
  /\ ret.threw = None
  /\ Len(padAssignments) = 2
  /\ HeldWords("B3") = 0 /\ MapHas(padAssignments, "B3")
  /\ HeldWords("A1") = 128
  /\ playerState[1].sampleInfo["A1"].hasSample
  /\ playerState[1].samples["A1"].length = 128
  /\ ~playerState[1].sampleInfo["B3"].hasSample
  /\ PlayerShows(playerState[1])

(***************************************************************************)
(* The transport of SndPlayer: play, pause, stop, the progress callback    *)
(* and the 'ended' callbacks of the sources.  uiState holds the React      *)
(* state (isPlaying, isPaused, currentTime), the refs (sourceRef as the    *)
(* number of a source, 0 for null; startTimeRef; pauseTimeRef; frame for   *)
(* a pending animation frame), the audio context's clock (now) and the     *)
(* sources created so far.  A source is [sounding, endedPending, offset,   *)
(* position, stoppedBy]: it sounds from start() until stop() or the end    *)
(* of the buffer, and its 'ended' event is delivered later, as a task of   *)
(* its own.  Times are whole ticks and the pitch is 0.                     *)
(***************************************************************************)
\* bounds of the model: the buffer's duration, the clock, the sources
UiDuration == 3

UiMaxTime == 4

UiMaxSources == 3

InitUi ==
  /\ uiState = Some([isPlaying |-> FALSE, isPaused |-> FALSE, currentTime |-> 0,
                     sourceRef |-> 0, startTimeRef |-> 0, pauseTimeRef |-> 0,
                     frame |-> FALSE, now |-> 0, sources |-> <<>>])
  /\ padAssignments = <<>>
  /\ ret = NoCall
  /\ sample = NoSample
  /\ fileData = None
  /\ parsed = None
  /\ wavBuffer = ZeroBytes(0)
  /\ wavTuning = 0
  /\ wavHeader = None
  /\ wavValidation = None
  /\ wavOutput = None
  /\ sndInput = None
  /\ sndFile = None
  /\ sndDecoded = None
  /\ requests = <<>>
  /\ scanState = None
  /\ playerState = None

otherThanUi ==
  <<builderVars, codecVars, wavVars, sndVars, requests, scanState, playerState>>

\* source.stop(): a source that sounds falls silent and its 'ended' event
\* is queued; a source that has ended already is left as it is
stopSource(sources, i, by) ==
  [sources EXCEPT ![i] =
     IF @.sounding
     THEN [@ EXCEPT !.sounding = FALSE, !.endedPending = TRUE, !.stoppedBy = by]
     ELSE @]

\* play(): the Play button is rendered while isPlaying is false
uiPlay(ui) ==
  LET offset == IF ui.isPaused THEN ui.pauseTimeRef ELSE 0
      source == [sounding |-> offset < UiDuration,
                 endedPending |-> ~(offset < UiDuration),
                 offset |-> offset, position |-> offset,
                 stoppedBy |-> IF offset < UiDuration THEN "none" ELSE "end"]
  IN [ui EXCEPT !.sources = Append(@, source),
                !.startTimeRef = ui.now - offset,
                !.sourceRef = Len(ui.sources) + 1,
                !.isPlaying = TRUE,
                !.isPaused = FALSE,
                !.frame = TRUE]

\* pause(): the Pause button is rendered while isPlaying is true
uiPause(ui) ==
  IF ui.sourceRef = 0 THEN ui
  ELSE [ui EXCEPT !.sources = stopSource(@, ui.sourceRef, "pause"),
                  !.sourceRef = 0,
                  !.pauseTimeRef = ui.currentTime,
                  !.isPlaying = FALSE,
                  !.isPaused = TRUE,
                  !.frame = FALSE]

\* stop(): the Stop button is always rendered
uiStop(ui) ==
  [ui EXCEPT !.sources = IF ui.sourceRef # 0 THEN stopSource(@, ui.sourceRef, "stop")
                         ELSE @,
             !.sourceRef = 0,
             !.isPlaying = FALSE,
             !.isPaused = FALSE,
             !.currentTime = 0,
             !.pauseTimeRef = 0,
             !.frame = FALSE]

\* updateProgress, the animation frame callback
uiUpdateProgress(ui) ==
  IF ui.sourceRef = 0 THEN [ui EXCEPT !.frame = FALSE]
  ELSE IF ui.now - ui.startTimeRef < UiDuration
  THEN [ui EXCEPT !.currentTime = ui.now - ui.startTimeRef, !.frame = TRUE]
  ELSE [ui EXCEPT !.isPlaying = FALSE, !.isPaused = FALSE, !.currentTime = 0,
                  !.frame = FALSE]

\* source.onended of source i
uiOnEnded(ui, i) ==
  [ui EXCEPT !.sources[i].endedPending = FALSE,
             !.isPlaying = FALSE,
             !.isPaused = FALSE,
             !.currentTime = 0,
             !.sourceRef = 0]

\* the audio clock moves on by one tick: every sounding source moves on and
\* ends when it reaches the end of the buffer
uiTick(ui) ==
  [ui EXCEPT !.now = @ + 1,
             !.sources =
                [i \in 1..Len(@) |->
                   IF ~@[i].sounding THEN @[i]
                   ELSE IF @[i].position + 1 < UiDuration
                   THEN [@[i] EXCEPT !.position = @ + 1]
                   ELSE [@[i] EXCEPT !.position = UiDuration, !.sounding = FALSE,
                                     !.endedPending = TRUE, !.stoppedBy = "end"]]]

Play ==
  /\ ~uiState[1].isPlaying
  /\ Len(uiState[1].sources) < UiMaxSources
  /\ uiState' = Some(uiPlay(uiState[1]))
  /\ UNCHANGED otherThanUi

Pause ==
  /\ uiState[1].isPlaying
  /\ uiState' = Some(uiPause(uiState[1]))
  /\ UNCHANGED otherThanUi

Stop ==
  /\ uiState' = Some(uiStop(uiState[1]))
  /\ UNCHANGED otherThanUi

UpdateProgress ==
  /\ uiState[1].frame
  /\ uiState' = Some(uiUpdateProgress(uiState[1]))
  /\ UNCHANGED otherThanUi

OnEnded ==
  \E i \in 1..Len(uiState[1].sources) :
    /\ uiState[1].sources[i].endedPending
    /\ uiState' = Some(uiOnEnded(uiState[1], i))
    /\ UNCHANGED otherThanUi

Tick ==
  /\ uiState[1].now < UiMaxTime
  /\ uiState' = Some(uiTick(uiState[1]))
  /\ UNCHANGED otherThanUi

NextUi == Play \/ Pause \/ Stop \/ UpdateProgress \/ OnEnded \/ Tick

SpecUi == InitUi /\ [][NextUi]_vars

\* the user's last transport action was pause: the newest source was
\* stopped by pause() and stop() has not reset the stored position since
UserPaused ==
  /\ uiState[1].sources # <<>>
  /\ uiState[1].sources[Len(uiState[1].sources)].stoppedBy = "pause"
  /\ uiState[1].pauseTimeRef > 0

\* C29: pause followed by play resumes from the paused position, whether
\* the 'ended' callback of the source that pause stopped runs before or
\* after the next play: the source that play starts begins at the position
\* stored by pause.
C29_ResumeFromPause ==
  [][(UserPaused /\ Len(uiState'[1].sources) = Len(uiState[1].sources) + 1) =>
        uiState'[1].sources[Len(uiState'[1].sources)].offset = uiState[1].pauseTimeRef]_vars

\* C30: a source that was started and has neither been stopped nor ended is
\* the one sourceRef refers to and isPlaying is true; at most one source
\* sounds; a late 'ended' callback of an earlier source leaves the state
\* and the reference of a newer one alone.
C30_SoundingIsCurrent ==
  \A i \in 1..Len(uiState[1].sources) :
    uiState[1].sources[i].sounding =>
      /\ uiState[1].isPlaying
      /\ uiState[1].sourceRef = i
      /\ \A j \in 1..Len(uiState[1].sources) :
           uiState[1].sources[j].sounding => j = i

====
